---------------------------- MODULE Spec2Model ----------------------------
(***************************************************************************)
(* Model of the AntiTheft alarm controller:                                *)
(*   - StateMachine / StateTransition   (src/src/state_machine.py)         *)
(*   - AlarmSystem cooldown timer       (src/src/state_machine.py)         *)
(*   - BooleanLogic.alarm_condition     (src/src/motion_detection.py)      *)
(*   - the control loop of AntiTheftAlarmSystem (src/main.py)              *)
(* Time is the integer reading of time.time(); one Tick is one second.     *)
(***************************************************************************)
EXTENDS Integers, Sequences, FiniteSets, TLC

VARIABLES
    now,             \* the wall clock, time.time()
    state_machine,   \* the StateMachine object (its fields)
    callback_calls,  \* per state: how often its registered callback was invoked
    alarm_system,    \* the AlarmSystem object (its fields)
    alarm_threads,   \* output threads (_play_alarm/_generate_beep): started, live
    tpc,             \* per caller thread of AlarmSystem.trigger: position in the call
    main_pc,         \* main(): "created", "looping" (inside start()), "done"
    running,         \* AntiTheftAlarmSystem.running
    system_armed,    \* AntiTheftAlarmSystem.system_armed
    last_call,       \* the last call a client made: number, name, arguments, result
    ring,            \* a CircularFrameBuffer object (its fields)
    ring_trace,      \* the frames written to and read from ring, in order
    cache,           \* an LRUCache object (its fields)
    cache_trace,     \* the keys touched in cache, least recently touched first
    locks,           \* per threading.Lock: the thread holding it, or Free
    prog,            \* per thread: the lock operations left in its current call
    call,            \* per thread: its current call
    detector,        \* a MotionDetector object (its fields)
    detect_trace,    \* detect_motion calls since construction or reset()
    recognizer,      \* the temporal smoothing fields of a FaceRecognizer
    smooth_trace,    \* the last detection smoothed and what was returned
    pipeline,        \* a Pipeline object (its fields)
    pipeline_pc,     \* where the stage threads and the caller of stop() are
    hierarchy        \* a MemoryHierarchy object (its fields)

fsm_vars == << state_machine, callback_calls >>
alarm_vars == << alarm_system, alarm_threads, tpc >>
loop_vars == << main_pc, running, system_armed >>

mem_vars == << ring, ring_trace, cache, cache_trace >>
lock_vars == << locks, prog, call >>
vision_vars == << detector, detect_trace, recognizer, smooth_trace >>
arch_vars == << pipeline, pipeline_pc, hierarchy >>

vars ==
    << now, fsm_vars, alarm_vars, loop_vars, last_call, mem_vars, lock_vars,
       vision_vars, arch_vars >>

----------------------------------------------------------------------------
(* Bounds of the model *)

MaxCooldown == 2
MaxTicks == 6
MaxTicksFSM == 1
MaxTransitions == 5
MaxTransitionsFSM == 6
MaxCapacity == 3
MaxWrites == 5
MaxCacheCapacity == 2
MaxAccesses == 2
MaxEvictions == 2
MaxTriggers == 3
MaxItems == 3
NumThreads == 2

(* Program constants *)

DwellSeconds == 2

\* time.time() at construction: seconds since 1970, beyond any cooldown period
Epoch == MaxCooldown + 1
MaxTime == Epoch + MaxTicks
Threads == 1 .. NumThreads
Reasons == {"Test"}
CallbackStates == {"ALERT", "COOLDOWN"}

----------------------------------------------------------------------------
(* SystemState, StateTransition *)

SystemState == {"IDLE", "MONITORING", "ALERT", "ALARM", "COOLDOWN"}

NoState == "None"

\* faulty variant: the table with the edge ALERT -> IDLE added
VALID_TRANSITIONS_extra_edge ==
    [s \in SystemState |->
        CASE s = "IDLE"       -> {"MONITORING"}
          [] s = "MONITORING" -> {"ALERT", "IDLE"}
          [] s = "ALERT"      -> {"ALARM", "MONITORING", "IDLE"}
          [] s = "ALARM"      -> {"COOLDOWN"}
          [] s = "COOLDOWN"   -> {"MONITORING", "IDLE"}]

VALID_TRANSITIONS ==
    [s \in SystemState |->
        CASE s = "IDLE"       -> {"MONITORING"}
          [] s = "MONITORING" -> {"ALERT", "IDLE"}
          [] s = "ALERT"      -> {"ALARM", "MONITORING"}
          [] s = "ALARM"      -> {"COOLDOWN"}
          [] s = "COOLDOWN"   -> {"MONITORING", "IDLE"}]

is_valid_transition(from_state, to_state) ==
    IF from_state \notin DOMAIN VALID_TRANSITIONS
    THEN FALSE
    ELSE to_state \in VALID_TRANSITIONS[from_state]

----------------------------------------------------------------------------
(* StateMachine *)

HistoryEntry(state, t, reason) ==
    [state |-> state, timestamp |-> t, reason |-> reason]

\* faulty variant: the entry is recorded but the state-entry time is not reset
record_state_entry_keeps_time(sm, state, reason, t) ==
    [sm EXCEPT !.state_history = Append(@, HistoryEntry(state, t, reason))]

record_state_entry(sm, state, reason, t) ==
    [sm EXCEPT !.state_history = Append(@, HistoryEntry(state, t, reason)),
               !.state_enter_time = t]

\* faulty variant: the initial state is not recorded in the history
StateMachineInit_unrecorded(initial_state, t) ==
    [current_state    |-> initial_state,
     previous_state   |-> NoState,
     state_enter_time |-> t,
     state_history    |-> << >>,
     transition_count |-> 0,
     state_callbacks  |-> {}]

StateMachineInit(initial_state, t) ==
    record_state_entry(
        [current_state    |-> initial_state,
         previous_state   |-> NoState,
         state_enter_time |-> t,
         state_history    |-> << >>,
         transition_count |-> 0,
         state_callbacks  |-> {}],
        initial_state, "", t)

\* faulty variant: a rejected transition is still counted
transition_to_counts_rejected(sm, new_state, reason, t) ==
    IF ~ is_valid_transition(sm.current_state, new_state)
    THEN [sm |-> [sm EXCEPT !.transition_count = @ + 1],
          ret |-> FALSE, called |-> << >>]
    ELSE LET moved == [sm EXCEPT !.previous_state = sm.current_state,
                                 !.current_state = new_state,
                                 !.transition_count = @ + 1]
         IN  [sm     |-> record_state_entry(moved, new_state, reason, t),
              ret    |-> TRUE,
              called |-> IF new_state \in sm.state_callbacks
                         THEN << new_state >> ELSE << >>]

\* The result of transition_to: the object after the call, the value returned
\* and the callbacks invoked during the call.
transition_to(sm, new_state, reason, t) ==
    IF ~ is_valid_transition(sm.current_state, new_state)
    THEN [sm |-> sm, ret |-> FALSE, called |-> << >>]
    ELSE LET moved == [sm EXCEPT !.previous_state = sm.current_state,
                                 !.current_state = new_state,
                                 !.transition_count = @ + 1]
         IN  [sm     |-> record_state_entry(moved, new_state, reason, t),
              ret    |-> TRUE,
              called |-> IF new_state \in sm.state_callbacks
                         THEN << new_state >> ELSE << >>]

get_current_state(sm) == sm.current_state

get_time_in_state(sm, t) == t - sm.state_enter_time

RECURSIVE CountCalls(_, _)
CountCalls(calls, called) ==
    IF called = << >> THEN calls
    ELSE CountCalls([calls EXCEPT ![Head(called)] = @ + 1], Tail(called))

----------------------------------------------------------------------------
(* AlarmSystem: the cooldown timer *)

AlarmSystemInit(is_enabled, period) ==
    [enabled           |-> is_enabled,
     cooldown_period   |-> period,
     is_active         |-> FALSE,
     last_trigger_time |-> 0,
     trigger_count     |-> 0]

\* faulty variant: the window is still closed when exactly the cooldown has elapsed
can_trigger_strict(al, t) ==
    IF ~ al.enabled
    THEN FALSE
    ELSE (t - al.last_trigger_time) > al.cooldown_period

can_trigger(al, t) ==
    IF ~ al.enabled
    THEN FALSE
    ELSE (t - al.last_trigger_time) >= al.cooldown_period

\* lines 242-245: the second critical section of trigger()
trigger_fire(al, t) ==
    [al EXCEPT !.is_active = TRUE,
               !.last_trigger_time = t,
               !.trigger_count = @ + 1]

\* faulty variant: a blocked call still stamps last_trigger_time
trigger_stamps_blocked(al, t) ==
    IF ~ can_trigger(al, t)
    THEN [al |-> [al EXCEPT !.last_trigger_time = t], started |-> 0]
    ELSE [al |-> trigger_fire(al, t), started |-> 1]

\* A whole trigger() call by one thread: the alarm object after the call and
\* the number of output threads it started.
trigger(al, t) ==
    IF ~ can_trigger(al, t)
    THEN [al |-> al, started |-> 0]
    ELSE [al |-> trigger_fire(al, t), started |-> 1]

----------------------------------------------------------------------------
(* BooleanLogic *)

AND(a, b) == a /\ b

OR(a, b) == a \/ b

NOT(a) == ~ a

XOR(a, b) == a # b

NAND(a, b) == ~ (a /\ b)

NOR(a, b) == ~ (a \/ b)

\* faulty variant: motion and an unknown face are both asked for
alarm_condition_needs_both(motion_detected, face_unknown, armed) ==
    AND(AND(motion_detected, face_unknown), armed)

\* faulty variant: the armed flag is not consulted
alarm_condition_ignores_armed(motion_detected, face_unknown, armed) ==
    OR(motion_detected, face_unknown)

alarm_condition(motion_detected, face_unknown, armed) ==
    LET detection == OR(motion_detected, face_unknown)
    IN  AND(detection, armed)

----------------------------------------------------------------------------
(* CircularFrameBuffer *)

\* Python's None, as a slot content and as a value returned; frames and cached
\* values are positive numbers
None == 0

Frames == {1, 2}

RingInit(capacity) ==
    [capacity       |-> capacity,
     buffer         |-> [i \in 0 .. capacity - 1 |-> None],
     head           |-> 0,
     tail           |-> 0,
     size           |-> 0,
     write_count    |-> 0,
     read_count     |-> 0,
     overflow_count |-> 0]

\* lines 56-60: on overflow the oldest frame is given up
buffer_make_room(rb) ==
    IF rb.size = rb.capacity
    THEN [rb EXCEPT !.overflow_count = @ + 1,
                    !.tail = (@ + 1) % rb.capacity,
                    !.size = @ - 1]
    ELSE rb

\* faulty variant: an overflow drops the oldest frame without counting it
buffer_write_overflow_uncounted(rb, frame) ==
    LET a == IF rb.size = rb.capacity
             THEN [rb EXCEPT !.tail = (@ + 1) % rb.capacity, !.size = @ - 1]
             ELSE rb
    IN  [a EXCEPT !.buffer[a.head] = frame,
                  !.head = (@ + 1) % a.capacity,
                  !.size = @ + 1,
                  !.write_count = @ + 1]

\* faulty variant: on overflow the read pointer stays on the overwritten slot
buffer_write_keeps_tail(rb, frame) ==
    LET a == IF rb.size = rb.capacity
             THEN [rb EXCEPT !.overflow_count = @ + 1, !.size = @ - 1]
             ELSE rb
    IN  [a EXCEPT !.buffer[a.head] = frame,
                  !.head = (@ + 1) % a.capacity,
                  !.size = @ + 1,
                  !.write_count = @ + 1]

\* write(frame); it always returns True
buffer_write(rb, frame) ==
    LET a == buffer_make_room(rb)
    IN  [a EXCEPT !.buffer[a.head] = frame,
                  !.head = (@ + 1) % a.capacity,
                  !.size = @ + 1,
                  !.write_count = @ + 1]

\* write(frame) as it ends: with capacity 0 the buffer counts as full, the
\* overflow is counted and (tail + 1) % capacity raises
\* (line 59); None in place of a frame has no copy(), which raises at line 63
\* after the overflow handling of lines 56-60
buffer_write_outcome(rb, frame) ==
    IF rb.capacity = 0
    THEN [rb  |-> [rb EXCEPT !.overflow_count = @ + 1],
          exc |-> "ZeroDivisionError"]
    ELSE IF frame = None
    THEN [rb |-> buffer_make_room(rb), exc |-> "AttributeError"]
    ELSE [rb |-> buffer_write(rb, frame), exc |-> "none"]

\* faulty variant: the newest frame is handed out first
buffer_read_newest(rb) ==
    IF rb.size = 0
    THEN [rb |-> rb, ret |-> None]
    ELSE LET at == (rb.head - 1) % rb.capacity
         IN  [rb  |-> [rb EXCEPT !.buffer[at] = None,
                                 !.head = at,
                                 !.size = @ - 1,
                                 !.read_count = @ + 1],
              ret |-> rb.buffer[at]]

\* faulty variant: a read of the empty buffer is counted
buffer_read_counts_empty(rb) ==
    IF rb.size = 0
    THEN [rb |-> [rb EXCEPT !.read_count = @ + 1], ret |-> None]
    ELSE [rb  |-> [rb EXCEPT !.buffer[rb.tail] = None,
                             !.tail = (@ + 1) % rb.capacity,
                             !.size = @ - 1,
                             !.read_count = @ + 1],
          ret |-> rb.buffer[rb.tail]]

\* read(): the buffer after the call and the value returned
buffer_read(rb) ==
    IF rb.size = 0
    THEN [rb |-> rb, ret |-> None]
    ELSE [rb  |-> [rb EXCEPT !.buffer[rb.tail] = None,
                             !.tail = (@ + 1) % rb.capacity,
                             !.size = @ - 1,
                             !.read_count = @ + 1],
          ret |-> rb.buffer[rb.tail]]

buffer_peek(rb) ==
    IF rb.size = 0 THEN None ELSE rb.buffer[rb.tail]

\* faulty variant: the slot at the write pointer is taken for the latest one
buffer_get_latest_at_head(rb) ==
    IF rb.size = 0 THEN None ELSE rb.buffer[rb.head]

buffer_get_latest(rb) ==
    IF rb.size = 0
    THEN None
    ELSE LET latest_idx == (rb.head - 1) % rb.capacity
         IN  rb.buffer[latest_idx]

\* faulty variant: the read pointer is not reset
buffer_clear_keeps_tail(rb) ==
    [rb EXCEPT !.buffer = [i \in 0 .. rb.capacity - 1 |-> None],
               !.head = 0,
               !.size = 0]

\* faulty variant: the counters are reset with the contents
buffer_clear_resets_counters(rb) ==
    RingInit(rb.capacity)

buffer_clear(rb) ==
    [rb EXCEPT !.buffer = [i \in 0 .. rb.capacity - 1 |-> None],
               !.head = 0,
               !.tail = 0,
               !.size = 0]

----------------------------------------------------------------------------
(* LRUCache *)

Keys == {"face1", "face2", "face3", "face4"}
Values == {1, 2}

\* the keys used where the number of keys plays no part
LockKeys == {"face1", "face2"}

CacheInit(capacity) ==
    [capacity       |-> capacity,
     cache          |-> << >>,
     hit_count      |-> 0,
     miss_count     |-> 0,
     eviction_count |-> 0,
     access_count   |-> 0]

\* the OrderedDict: a sequence of entries, least recently used first
Entry(key, value) == [key |-> key, value |-> value]

HasKey(od, key) == \E i \in 1 .. Len(od) : od[i].key = key

IndexOf(od, key) == CHOOSE i \in 1 .. Len(od) : od[i].key = key

Without(od, i) == SubSeq(od, 1, i - 1) \o SubSeq(od, i + 1, Len(od))

move_to_end(od, key) ==
    LET i == IndexOf(od, key) IN Append(Without(od, i), od[i])

\* faulty variant: a hit does not move the key
cache_get_keeps_order(c, key) ==
    LET a == [c EXCEPT !.access_count = @ + 1]
    IN  IF HasKey(a.cache, key)
        THEN [c   |-> [a EXCEPT !.hit_count = @ + 1],
              ret |-> a.cache[IndexOf(a.cache, key)].value]
        ELSE [c |-> [a EXCEPT !.miss_count = @ + 1], ret |-> None]

\* faulty variant: only hits are counted as accesses
cache_get_miss_uncounted(c, key) ==
    IF HasKey(c.cache, key)
    THEN LET od == move_to_end(c.cache, key)
         IN  [c   |-> [c EXCEPT !.cache = od, !.hit_count = @ + 1,
                                !.access_count = @ + 1],
              ret |-> od[Len(od)].value]
    ELSE [c |-> [c EXCEPT !.miss_count = @ + 1], ret |-> None]

\* get(key): the cache after the call and the value returned
cache_get(c, key) ==
    LET a == [c EXCEPT !.access_count = @ + 1]
    IN  IF HasKey(a.cache, key)
        THEN LET od == move_to_end(a.cache, key)
             IN  [c   |-> [a EXCEPT !.cache = od, !.hit_count = @ + 1],
                  ret |-> od[Len(od)].value]
        ELSE [c |-> [a EXCEPT !.miss_count = @ + 1], ret |-> None]

\* faulty variant: a new key is stored without making room
cache_put_no_eviction(c, key, value) ==
    IF HasKey(c.cache, key)
    THEN LET od == move_to_end(c.cache, key)
         IN  [c EXCEPT !.cache = [od EXCEPT ![Len(od)] = Entry(key, value)]]
    ELSE [c EXCEPT !.cache = Append(@, Entry(key, value))]

\* faulty variant: the most recently used key is evicted
cache_put_evicts_newest(c, key, value) ==
    IF HasKey(c.cache, key)
    THEN LET od == move_to_end(c.cache, key)
         IN  [c EXCEPT !.cache = [od EXCEPT ![Len(od)] = Entry(key, value)]]
    ELSE LET a == IF Len(c.cache) >= c.capacity
                  THEN [c EXCEPT !.cache = SubSeq(@, 1, Len(@) - 1),
                                 !.eviction_count = @ + 1]
                  ELSE c
         IN  [a EXCEPT !.cache = Append(@, Entry(key, value))]

\* faulty variant: the value of a stored key is replaced where the key is
cache_put_keeps_position(c, key, value) ==
    IF HasKey(c.cache, key)
    THEN [c EXCEPT !.cache[IndexOf(c.cache, key)] = Entry(key, value)]
    ELSE LET a == IF Len(c.cache) >= c.capacity
                  THEN [c EXCEPT !.cache = Tail(@), !.eviction_count = @ + 1]
                  ELSE c
         IN  [a EXCEPT !.cache = Append(@, Entry(key, value))]

cache_put(c, key, value) ==
    IF HasKey(c.cache, key)
    THEN LET od == move_to_end(c.cache, key)
         IN  [c EXCEPT !.cache = [od EXCEPT ![Len(od)] = Entry(key, value)]]
    ELSE LET a == IF Len(c.cache) >= c.capacity
                  THEN [c EXCEPT !.cache = Tail(@), !.eviction_count = @ + 1]
                  ELSE c
         IN  [a EXCEPT !.cache = Append(@, Entry(key, value))]

\* put(key, value) as it ends: popitem on an empty OrderedDict raises
cache_put_outcome(c, key, value) ==
    IF ~HasKey(c.cache, key) /\ Len(c.cache) >= c.capacity /\ c.cache = << >>
    THEN [c |-> c, exc |-> "KeyError"]
    ELSE [c |-> cache_put(c, key, value), exc |-> "none"]

StoredKeys(c) == { c.cache[i].key : i \in 1 .. Len(c.cache) }

\* the record of touches: the stored keys in the order of their latest touch
\* (a put of the key or a get that hit it), oldest first; the key of a get
\* that hit on the full cache and the number of puts of new keys since, as long
\* as nothing else was called; whether the last call was a put of a key
\* already stored
NoKey == "none"

CacheTraceInit ==
    [order |-> << >>, hit |-> NoKey, puts |-> 0, updated |-> FALSE]

Touch(order, key) == Append(SelectSeq(order, LAMBDA k : k # key), key)

Stored(order, c) == SelectSeq(order, LAMBDA k : k \in StoredKeys(c))

\* remove(key): the cache after the call and the value returned
cache_remove(c, key) ==
    IF HasKey(c.cache, key)
    THEN [c   |-> [c EXCEPT !.cache = Without(@, IndexOf(c.cache, key))],
          ret |-> TRUE]
    ELSE [c |-> c, ret |-> FALSE]

cache_clear(c) == CacheInit(c.capacity)

\* hit rate in percent (rounded down)
cache_get_hit_rate(c) ==
    IF c.access_count = 0 THEN 0 ELSE (c.hit_count * 100) \div c.access_count

cache_get_stats(c) ==
    [capacity       |-> c.capacity,
     current_size   |-> Len(c.cache),
     hit_count      |-> c.hit_count,
     miss_count     |-> c.miss_count,
     eviction_count |-> c.eviction_count,
     access_count   |-> c.access_count,
     hit_rate       |-> cache_get_hit_rate(c)]

----------------------------------------------------------------------------
(* MotionDetector: the frame differencing pipeline.  A frame is one row of
   grey levels; blur_kernel_size is 3, for which cv2.GaussianBlur uses the
   weights 1, 2, 1 over 4 with the border reflected about the edge pixel.
   A contour is a maximal run of white pixels, given by its first and last
   column, and its area is the number of its pixels. *)

Columns == 1 .. 3
Pixels == 0 .. 2
NoFrame == << >>
White == 255
KernelSize == 5
PixelThreshold == 1

DetectorInit(min_contour_area, dilation_iterations) ==
    [threshold              |-> PixelThreshold,
     min_contour_area       |-> min_contour_area,
     dilation_iterations    |-> dilation_iterations,
     previous_frame         |-> NoFrame,
     total_frames_processed |-> 0,
     motion_detected_count  |-> 0]

Reflect(i, n) == IF i < 1 THEN 2 - i ELSE IF i > n THEN 2 * n - i ELSE i

preprocess_frame(frame) ==
    LET n == Len(frame)
    IN  [i \in 1 .. n |->
            (frame[Reflect(i - 1, n)] + 2 * frame[i]
                + frame[Reflect(i + 1, n)] + 2) \div 4]

pixel_subtraction(frame1, frame2) ==
    [i \in DOMAIN frame1 |->
        IF frame1[i] >= frame2[i] THEN frame1[i] - frame2[i]
                                  ELSE frame2[i] - frame1[i]]

\* faulty variant: the first frame stays the baseline of every difference
compute_frame_difference_keeps_baseline(det, current_frame) ==
    IF det.previous_frame = NoFrame
    THEN [det |-> [det EXCEPT !.previous_frame = current_frame],
          frame_diff |-> NoFrame]
    ELSE [det |-> det,
          frame_diff |-> pixel_subtraction(current_frame, det.previous_frame)]

compute_frame_difference(det, current_frame) ==
    IF det.previous_frame = NoFrame
    THEN [det |-> [det EXCEPT !.previous_frame = current_frame],
          frame_diff |-> NoFrame]
    ELSE [det |-> [det EXCEPT !.previous_frame = current_frame],
          frame_diff |-> pixel_subtraction(current_frame, det.previous_frame)]

apply_threshold(det, frame_diff) ==
    [i \in DOMAIN frame_diff |->
        IF frame_diff[i] > det.threshold THEN White ELSE 0]

RECURSIVE dilate(_, _)
dilate(img, iterations) ==
    IF iterations = 0 THEN img
    ELSE dilate([i \in DOMAIN img |->
                    IF \E j \in DOMAIN img :
                          /\ j - i <= KernelSize \div 2
                          /\ i - j <= KernelSize \div 2
                          /\ img[j] = White
                    THEN White ELSE 0],
                iterations - 1)

morphological_operations(det, thresh) == dilate(thresh, det.dilation_iterations)

find_contours(processed_frame) ==
    LET n == Len(processed_frame)
    IN  {c \in (1 .. n) \X (1 .. n) :
            /\ c[1] <= c[2]
            /\ \A i \in c[1] .. c[2] : processed_frame[i] # 0
            /\ c[1] = 1 \/ processed_frame[c[1] - 1] = 0
            /\ c[2] = n \/ processed_frame[c[2] + 1] = 0}

contourArea(contour) == contour[2] - contour[1] + 1

threshold_comparison(value, threshold, operation) ==
    CASE operation = "greater"       -> value > threshold
      [] operation = "less"          -> value < threshold
      [] operation = "equal"         -> value = threshold
      [] operation = "greater_equal" -> value >= threshold
      [] operation = "less_equal"    -> value <= threshold
      [] OTHER                       -> FALSE

\* faulty variant: a region as large as the minimum is kept
filter_contours_keeps_equal(det, contours) ==
    {contour \in contours :
        threshold_comparison(contourArea(contour), det.min_contour_area,
                             "greater_equal")}

filter_contours(det, contours) ==
    {contour \in contours :
        threshold_comparison(contourArea(contour), det.min_contour_area,
                             "greater")}

\* the contours of the difference between a reduced frame and the one before
Regions(det, frame_diff) ==
    find_contours(morphological_operations(det, apply_threshold(det, frame_diff)))

\* faulty variant: the first frame is counted as a processed frame
detect_motion_counts_first(det, frame) ==
    LET d == compute_frame_difference(det, preprocess_frame(frame))
        motion_detected ==
            filter_contours(d.det, Regions(d.det, d.frame_diff)) # {}
    IN  IF d.frame_diff = NoFrame
        THEN [det |-> [d.det EXCEPT !.total_frames_processed = @ + 1],
              motion_detected |-> FALSE]
        ELSE [det |-> [d.det EXCEPT
                          !.total_frames_processed = @ + 1,
                          !.motion_detected_count =
                              IF motion_detected THEN @ + 1 ELSE @],
              motion_detected |-> motion_detected]

detect_motion(det, frame) ==
    LET d == compute_frame_difference(det, preprocess_frame(frame))
        motion_detected ==
            filter_contours(d.det, Regions(d.det, d.frame_diff)) # {}
    IN  IF d.frame_diff = NoFrame
        THEN [det |-> d.det, motion_detected |-> FALSE]
        ELSE [det |-> [d.det EXCEPT
                          !.total_frames_processed = @ + 1,
                          !.motion_detected_count =
                              IF motion_detected THEN @ + 1 ELSE @],
              motion_detected |-> motion_detected]

reset_metrics(det) ==
    [det EXCEPT !.total_frames_processed = 0, !.motion_detected_count = 0]

reset(det) == reset_metrics([det EXCEPT !.previous_frame = NoFrame])

----------------------------------------------------------------------------
(* FaceRecognizer: temporal smoothing of the detections.  A detection is its
   list of names; the list of locations runs parallel to it and has the same
   length, so it is left out. *)

history_length == 5
min_confidence_frames == 3

Detections ==
    {<< >>, <<"alice">>, <<"Unknown">>, <<"alice", "Unknown">>,
     <<"Unknown", "Unknown", "Unknown", "Unknown", "Unknown">>}

RecognizerInit == [face_history |-> << >>, last_stable_names |-> << >>]

\* the k-th smallest of a list of counts
Sorted(face_counts, k) ==
    CHOOSE v \in {face_counts[i] : i \in DOMAIN face_counts} :
        /\ Cardinality({i \in DOMAIN face_counts : face_counts[i] < v}) < k
        /\ Cardinality({i \in DOMAIN face_counts : face_counts[i] <= v}) >= k

\* int(np.median(face_counts)): the mean of the two middle counts of an even
\* number of counts loses its half
median_count(face_counts) ==
    LET n == Len(face_counts)
    IN  IF n % 2 = 1
        THEN Sorted(face_counts, (n + 1) \div 2)
        ELSE (Sorted(face_counts, n \div 2)
                + Sorted(face_counts, n \div 2 + 1)) \div 2

\* faulty variant: the count is compared with the stable one, not the median
apply_temporal_smoothing_against_stable(rec, names) ==
    LET appended == Append(rec.face_history, names)
        history == IF Len(appended) > history_length
                   THEN Tail(appended) ELSE appended
        stable_count == Len(rec.last_stable_names)
        close == \/ Len(names) - stable_count \in 0 .. 1
                 \/ stable_count - Len(names) \in 0 .. 1
    IN  IF Len(history) < min_confidence_frames \/ close
        THEN [rec |-> [face_history |-> history, last_stable_names |-> names],
              names |-> names]
        ELSE [rec |-> [face_history |-> history,
                       last_stable_names |-> rec.last_stable_names],
              names |-> rec.last_stable_names]

\* faulty variant: a full history drops its newest entry, not its oldest
apply_temporal_smoothing_drops_newest(rec, names) ==
    LET appended == Append(rec.face_history, names)
        history == IF Len(appended) > history_length
                   THEN SubSeq(appended, 1, history_length) ELSE appended
        stable_count == median_count([i \in DOMAIN history |-> Len(history[i])])
        close == \/ Len(names) - stable_count \in 0 .. 1
                 \/ stable_count - Len(names) \in 0 .. 1
    IN  IF Len(history) < min_confidence_frames \/ close
        THEN [rec |-> [face_history |-> history, last_stable_names |-> names],
              names |-> names]
        ELSE [rec |-> [face_history |-> history,
                       last_stable_names |-> rec.last_stable_names],
              names |-> rec.last_stable_names]

\* faulty variant: a detection that is turned down still becomes the stable one
apply_temporal_smoothing_always_stores(rec, names) ==
    LET appended == Append(rec.face_history, names)
        history == IF Len(appended) > history_length
                   THEN Tail(appended) ELSE appended
        stable_count == median_count([i \in DOMAIN history |-> Len(history[i])])
        close == \/ Len(names) - stable_count \in 0 .. 1
                 \/ stable_count - Len(names) \in 0 .. 1
    IN  IF Len(history) < min_confidence_frames \/ close
        THEN [rec |-> [face_history |-> history, last_stable_names |-> names],
              names |-> names]
        ELSE [rec |-> [face_history |-> history, last_stable_names |-> names],
              names |-> rec.last_stable_names]

apply_temporal_smoothing(rec, names) ==
    LET appended == Append(rec.face_history, names)
        history == IF Len(appended) > history_length
                   THEN Tail(appended) ELSE appended
        stable_count == median_count([i \in DOMAIN history |-> Len(history[i])])
        close == \/ Len(names) - stable_count \in 0 .. 1
                 \/ stable_count - Len(names) \in 0 .. 1
    IN  IF Len(history) < min_confidence_frames \/ close
        THEN [rec |-> [face_history |-> history, last_stable_names |-> names],
              names |-> names]
        ELSE [rec |-> [face_history |-> history,
                       last_stable_names |-> rec.last_stable_names],
              names |-> rec.last_stable_names]

\* what the calls since construction or reset() were: how many, whether the
\* counters were left alone, the first reduced frame, and the areas of the
\* regions of the last call
DetectTraceInit ==
    [calls |-> 0, metrics_kept |-> TRUE, first |-> NoFrame, areas |-> {}]

InitVision(min_contour_area, dilation_iterations) ==
    /\ detector = DetectorInit(min_contour_area, dilation_iterations)
    /\ detect_trace = DetectTraceInit
    /\ recognizer = RecognizerInit
    /\ smooth_trace = [names |-> << >>, returned |-> << >>]

----------------------------------------------------------------------------
(* AntiTheftAlarmSystem: the control loop *)

\* The result of a step of the control loop: both objects after it, the
\* callbacks invoked and the number of output threads started.
LoopResult(sm, al, called, started) ==
    [sm |-> sm, al |-> al, called |-> called, started |-> started]

\* faulty variant: the alarm is raised but the controller is left in ALARM
trigger_alarm_stays_in_alarm(sm, al, t) ==
    LET fired == trigger(al, t)
    IN  LoopResult(sm, fired.al, << >>, fired.started)

trigger_alarm(sm, al, t) ==
    LET fired == trigger(al, t)
        cool  == transition_to(sm, "COOLDOWN", "Alarm triggered", t)
    IN  LoopResult(cool.sm, fired.al, cool.called, fired.started)

\* faulty variant: the alarm is raised as soon as the dwell time is reached
handle_threat_dwell_reached(sm, al, current_state, t) ==
    IF current_state = "MONITORING"
    THEN LET r == transition_to(sm, "ALERT", "Threat detected", t)
         IN  LoopResult(r.sm, al, r.called, 0)
    ELSE IF current_state = "ALERT" /\ get_time_in_state(sm, t) >= DwellSeconds
    THEN LET r == transition_to(sm, "ALARM", "Confirmed threat", t)
             a == trigger_alarm(r.sm, al, t)
         IN  LoopResult(a.sm, a.al, r.called \o a.called, a.started)
    ELSE LoopResult(sm, al, << >>, 0)

\* _handle_detection, the branch taken when alarm_trigger is true
handle_threat(sm, al, current_state, t) ==
    IF current_state = "MONITORING"
    THEN LET r == transition_to(sm, "ALERT", "Threat detected", t)
         IN  LoopResult(r.sm, al, r.called, 0)
    ELSE IF current_state = "ALERT" /\ get_time_in_state(sm, t) > DwellSeconds
    THEN LET r == transition_to(sm, "ALARM", "Confirmed threat", t)
             a == trigger_alarm(r.sm, al, t)
         IN  LoopResult(a.sm, a.al, r.called \o a.called, a.started)
    ELSE LoopResult(sm, al, << >>, 0)

\* faulty variant: a false alarm is only recognised before the dwell time is over
handle_no_threat_early_only(sm, al, current_state, t) ==
    IF current_state = "ALERT" /\ get_time_in_state(sm, t) <= DwellSeconds
    THEN LET r == transition_to(sm, "MONITORING", "False alarm", t)
         IN  LoopResult(r.sm, al, r.called, 0)
    ELSE IF current_state = "COOLDOWN"
            /\ get_time_in_state(sm, t) > al.cooldown_period
    THEN LET r == transition_to(sm, "MONITORING", "Cooldown expired", t)
         IN  LoopResult(r.sm, al, r.called, 0)
    ELSE LoopResult(sm, al, << >>, 0)

\* _handle_detection, the branch taken when alarm_trigger is false
handle_no_threat(sm, al, current_state, t) ==
    IF current_state = "ALERT"
    THEN LET r == transition_to(sm, "MONITORING", "False alarm", t)
         IN  LoopResult(r.sm, al, r.called, 0)
    ELSE IF current_state = "COOLDOWN"
            /\ get_time_in_state(sm, t) > al.cooldown_period
    THEN LET r == transition_to(sm, "MONITORING", "Cooldown expired", t)
         IN  LoopResult(r.sm, al, r.called, 0)
    ELSE LoopResult(sm, al, << >>, 0)

handle_detection(sm, al, alarm_trigger, t) ==
    LET current_state == get_current_state(sm)
    IN  IF alarm_trigger
        THEN handle_threat(sm, al, current_state, t)
        ELSE handle_no_threat(sm, al, current_state, t)

process_frame(sm, al, motion_detected, unknown_face, armed, t) ==
    LET alarm_trigger == alarm_condition(motion_detected, unknown_face, armed)
    IN  handle_detection(sm, al, alarm_trigger, t)

----------------------------------------------------------------------------
(* Initial states *)

\* seq alternates, so that every call (also one that changes nothing, or one
\* equal to the call before it) is a step that shows
\* exc names the exception a call ended with, if it did not return
NoError == "none"

Call(op, arg, ret) ==
    [seq |-> 1 - last_call.seq, op |-> op, arg |-> arg, ret |-> ret,
     val |-> None, exc |-> NoError]

\* a call that ends with an exception
Raise(op, arg, exc) ==
    [seq |-> 1 - last_call.seq, op |-> op, arg |-> arg, ret |-> FALSE,
     val |-> None, exc |-> exc]

\* a call that hands back a frame, or None
CallValue(op, arg, val) ==
    [seq |-> 1 - last_call.seq, op |-> op, arg |-> arg, ret |-> val # None,
     val |-> val, exc |-> NoError]

IsCall == last_call'.seq # last_call.seq

InitController(is_enabled, period) ==
    /\ now = Epoch
    /\ state_machine = StateMachineInit("IDLE", Epoch)
    /\ callback_calls = [s \in SystemState |-> 0]
    /\ alarm_system = AlarmSystemInit(is_enabled, period)
    /\ alarm_threads = [started |-> 0, live |-> 0]
    /\ tpc = [th \in Threads |-> "idle"]
    /\ main_pc = "created"
    /\ running = FALSE
    /\ system_armed = TRUE
    /\ last_call = [seq |-> 0, op |-> "init", arg |-> << >>, ret |-> TRUE,
                    val |-> None, exc |-> NoError]

InitMemory(ring_capacity, cache_capacity) ==
    /\ ring = RingInit(ring_capacity)
    /\ ring_trace = [written |-> << >>, read |-> << >>, cleared |-> FALSE]
    /\ cache = CacheInit(cache_capacity)
    /\ cache_trace = CacheTraceInit

Free == "free"
NoCall == [op |-> "none", arg |-> << >>]
LockNames == {"state_machine", "cache", "ring"}
LockThreads == {"processing", "reporting"}

InitLocks ==
    /\ locks = [l \in LockNames |-> Free]
    /\ prog = [th \in LockThreads |-> << >>]
    /\ call = [th \in LockThreads |-> NoCall]

----------------------------------------------------------------------------
(* Pipeline: one thread per stage, the stages connected by bounded queues *)

\* queue.Queue(maxsize=10)
maxsize == 10

\* what a queue holds: work items, and None as the poison pill
Item == "item"
Pill == "None"

\* Pipeline(name, stages) with len(stages) = num_stages; start() has not run
PipelineInit(num_stages) ==
    [num_stages   |-> num_stages,
     stage_queues |-> [q \in 0 .. num_stages |-> << >>],
     running      |-> FALSE]

\* where the stage threads and the caller of stop() are
PipelinePcInit(num_stages) ==
    [stage |-> [i \in 0 .. num_stages - 1 |-> "unstarted"], stop |-> "idle"]

\* Queue.put blocks while the queue is full
full(q) == Len(q) >= maxsize

\* Queue.put(item), once there is room
put(p, q, item) == [p EXCEPT !.stage_queues[q] = Append(@, item)]

\* Queue.get() on a queue that is not empty
get(p, q) == [p EXCEPT !.stage_queues[q] = Tail(@)]

----------------------------------------------------------------------------
(* MemoryHierarchy *)

l1_access_time == 1

MemoryHierarchyInit(l1_size, l2_size) ==
    [l1_cache       |-> RingInit(l1_size),
     l2_cache       |-> CacheInit(l2_size),
     lock           |-> Free,
     total_accesses |-> 0]

\* access_frame(operation), made with the hierarchy's lock free: the fields
\* when the call ends, the tuple returned as (ret, val), and the exception
\* that leaves the call; the with statement releases the lock either way
access_frame(h, operation) ==
    LET counted == [h EXCEPT !.total_accesses = @ + 1]
    IN  IF operation = "read"
        THEN LET r == buffer_read(counted.l1_cache)
             IN  [h   |-> [counted EXCEPT !.l1_cache = r.rb],
                  ret |-> r.ret # None,
                  val |-> l1_access_time,
                  exc |-> NoError]
        ELSE IF operation = "write"
        THEN LET w == buffer_write_outcome(counted.l1_cache, None)
             IN  [h   |-> [counted EXCEPT !.l1_cache = w.rb],
                  ret |-> w.exc = NoError,
                  val |-> IF w.exc = NoError THEN l1_access_time ELSE None,
                  exc |-> w.exc]
        ELSE [h |-> counted, ret |-> FALSE, val |-> 0, exc |-> NoError]

InitArchitecture(num_stages, l1_size) ==
    /\ pipeline = PipelineInit(num_stages)
    /\ pipeline_pc = PipelinePcInit(num_stages)
    /\ hierarchy = MemoryHierarchyInit(l1_size, 1)

InitObjects(is_enabled, period) ==
    /\ InitController(is_enabled, period)
    /\ InitMemory(1, 1)
    /\ InitLocks
    /\ InitVision(1, 0)
    /\ InitArchitecture(1, 1)

Init ==
    \E is_enabled \in BOOLEAN, period \in 0 .. MaxCooldown :
        InitObjects(is_enabled, period)

InitFSM == InitObjects(TRUE, MaxCooldown)

----------------------------------------------------------------------------
(* The clock and the output threads *)

Advance ==
    /\ now' = now + 1
    /\ UNCHANGED << fsm_vars, alarm_vars, loop_vars, last_call, mem_vars,
                    lock_vars, vision_vars, arch_vars >>

Tick == now < MaxTime /\ Advance

TickFSM == now < Epoch + MaxTicksFSM /\ Advance

\* _play_alarm / _generate_beep: an output thread ends and clears is_active
AlarmThreadEnd ==
    /\ alarm_threads.live > 0
    /\ alarm_threads' = [alarm_threads EXCEPT !.live = @ - 1]
    /\ alarm_system' = [alarm_system EXCEPT !.is_active = FALSE]
    /\ UNCHANGED << now, fsm_vars, tpc, loop_vars, last_call, mem_vars,
                    lock_vars, vision_vars, arch_vars >>

StartThreads(k) ==
    [started |-> alarm_threads.started + k, live |-> alarm_threads.live + k]

----------------------------------------------------------------------------
(* Calls on the StateMachine object *)

TransitionTo(new_state, reason) ==
    /\ LET r == transition_to(state_machine, new_state, reason, now)
       IN  /\ r.sm.transition_count <= MaxTransitionsFSM
           /\ state_machine' = r.sm
           /\ callback_calls' = CountCalls(callback_calls, r.called)
           /\ last_call' = Call("transition_to",
                                << new_state, reason >>, r.ret)
    /\ UNCHANGED << now, alarm_vars, loop_vars, mem_vars, lock_vars, vision_vars, arch_vars >>

RegisterCallback(state) ==
    /\ state_machine' = [state_machine EXCEPT !.state_callbacks = @ \cup {state}]
    /\ last_call' = Call("register_callback", << state >>, TRUE)
    /\ UNCHANGED << now, callback_calls, alarm_vars, loop_vars, mem_vars,
                    lock_vars, vision_vars, arch_vars >>

NextFSM ==
    \/ \E new_state \in SystemState, reason \in Reasons :
           TransitionTo(new_state, reason)
    \/ \E state \in CallbackStates : RegisterCallback(state)
    \/ TickFSM

SpecFSM == InitFSM /\ [][NextFSM]_vars

----------------------------------------------------------------------------
(* The control loop *)

Start ==
    /\ main_pc = "created"
    /\ ~ running
    /\ running' = TRUE
    /\ main_pc' = "looping"
    /\ LET r == transition_to(state_machine, "MONITORING", "System started", now)
       IN  /\ r.sm.transition_count <= MaxTransitions
           /\ state_machine' = r.sm
           /\ callback_calls' = CountCalls(callback_calls, r.called)
    /\ last_call' = Call("start", << >>, TRUE)
    /\ UNCHANGED << now, alarm_vars, system_armed, mem_vars, lock_vars, vision_vars, arch_vars >>

\* one turn of the loop: self._process_frame(frame).  The loop also stores the
\* frame in its frame buffer, which the controller never reads; the buffer is
\* followed on its own in SpecRing.
ProcessFrame(motion_detected, unknown_face) ==
    /\ main_pc = "looping"
    /\ running
    /\ LET r == process_frame(state_machine, alarm_system, motion_detected,
                              unknown_face, system_armed, now)
       IN  /\ r.sm.transition_count <= MaxTransitions
           /\ state_machine' = r.sm
           /\ alarm_system' = r.al
           /\ callback_calls' = CountCalls(callback_calls, r.called)
           /\ alarm_threads' = StartThreads(r.started)
    /\ last_call' = Call("frame",
                         << motion_detected, unknown_face >>, TRUE)
    /\ UNCHANGED << now, tpc, loop_vars, mem_vars, lock_vars, vision_vars, arch_vars >>

ToggleArmed ==
    /\ main_pc = "looping"
    /\ running
    /\ system_armed' = ~ system_armed
    /\ last_call' = Call("toggle_armed", << >>, TRUE)
    /\ UNCHANGED << now, fsm_vars, alarm_vars, main_pc, running, mem_vars,
                    lock_vars, vision_vars, arch_vars >>

Stop ==
    /\ main_pc = "looping"
    /\ running
    /\ running' = FALSE
    /\ main_pc' = "done"
    /\ LET r == transition_to(state_machine, "IDLE", "System stopped", now)
       IN  /\ r.sm.transition_count <= MaxTransitions
           /\ state_machine' = r.sm
           /\ callback_calls' = CountCalls(callback_calls, r.called)
    /\ last_call' = Call("stop", << >>, TRUE)
    /\ UNCHANGED << now, alarm_vars, system_armed, mem_vars, lock_vars, vision_vars, arch_vars >>

Next ==
    \/ Start
    \/ \E motion_detected \in BOOLEAN, unknown_face \in BOOLEAN :
           ProcessFrame(motion_detected, unknown_face)
    \/ ToggleArmed
    \/ Stop
    \/ Tick
    \/ AlarmThreadEnd

Spec == Init /\ [][Next]_vars

----------------------------------------------------------------------------
(* Calls on the AlarmSystem object *)

\* trigger() called by a single thread: the whole call
Trigger ==
    /\ LET r == trigger(alarm_system, now)
       IN  /\ r.al.trigger_count <= MaxTriggers
           /\ alarm_system' = r.al
           /\ alarm_threads' = StartThreads(r.started)
           /\ last_call' = Call("trigger", << >>, r.started = 1)
    /\ UNCHANGED << now, fsm_vars, tpc, loop_vars, mem_vars, lock_vars, vision_vars, arch_vars >>

\* AlarmSystem.stop()
AlarmStop ==
    /\ alarm_system' = [alarm_system EXCEPT !.is_active = FALSE]
    /\ last_call' = Call("alarm_stop", << >>, TRUE)
    /\ UNCHANGED << now, fsm_vars, alarm_threads, tpc, loop_vars, mem_vars,
                    lock_vars, vision_vars, arch_vars >>

NextTimerSeq ==
    \/ Trigger
    \/ AlarmStop
    \/ AlarmThreadEnd
    \/ Tick

SpecTimerSeq == Init /\ [][NextTimerSeq]_vars

\* trigger() called by several threads. The call takes the lock twice: once
\* inside can_trigger() (lines 223-230) and once to fire (lines 242-245).
TriggerCheck(th) ==
    /\ tpc[th] = "idle"
    /\ alarm_system.trigger_count < MaxTriggers
    /\ IF can_trigger(alarm_system, now)
       THEN /\ tpc' = [tpc EXCEPT ![th] = "fire"]
            /\ UNCHANGED last_call
       ELSE /\ last_call' = Call("trigger", << th >>, FALSE)
            /\ UNCHANGED tpc
    /\ UNCHANGED << now, fsm_vars, alarm_system, alarm_threads, loop_vars, mem_vars,
                    lock_vars, vision_vars, arch_vars >>

TriggerFire(th) ==
    /\ tpc[th] = "fire"
    /\ alarm_system' = trigger_fire(alarm_system, now)
    /\ alarm_threads' = StartThreads(1)
    /\ tpc' = [tpc EXCEPT ![th] = "idle"]
    /\ last_call' = Call("trigger", << th >>, TRUE)
    /\ UNCHANGED << now, fsm_vars, loop_vars, mem_vars, lock_vars, vision_vars, arch_vars >>

NextTimer ==
    \/ \E th \in Threads : TriggerCheck(th)
    \/ \E th \in Threads : TriggerFire(th)
    \/ AlarmThreadEnd
    \/ Tick

SpecTimer == Init /\ [][NextTimer]_vars

----------------------------------------------------------------------------
(* Properties of the state machine, checked under SpecFSM *)

\* The transition table as the specification states it
StatedTable ==
    [s \in SystemState |->
        CASE s = "IDLE"       -> {"MONITORING"}
          [] s = "MONITORING" -> {"ALERT", "IDLE"}
          [] s = "ALERT"      -> {"ALARM", "MONITORING"}
          [] s = "ALARM"      -> {"COOLDOWN"}
          [] s = "COOLDOWN"   -> {"MONITORING", "IDLE"}]

TransitionCall == IsCall /\ last_call'.op = "transition_to"
Target == last_call'.arg[1]
Reason == last_call'.arg[2]

C2_RejectedTransitionChangesNothing ==
    [][ (TransitionCall /\ Target \notin StatedTable[state_machine.current_state])
        => /\ last_call'.ret = FALSE
           /\ state_machine' = state_machine
           /\ callback_calls' = callback_calls
      ]_vars

\* a refused call whose target has a callback registered, after the clock
\* moved on from the entry time
C2_Witness ==
    /\ last_call.op = "transition_to"
    /\ last_call.ret = FALSE
    /\ last_call.arg[1] \in state_machine.state_callbacks
    /\ now > state_machine.state_enter_time
    /\ state_machine.transition_count > 0

\* C3: a valid transition_to(t, reason) from s returns true and sets the
\* previous state to s, the current state to t, the entry time to now, adds 1
\* to the transition counter, appends one history entry with t and reason,
\* and invokes the callback registered for t once and no other callback.
C3_ValidTransitionEffect ==
    [][ (TransitionCall /\ Target \in StatedTable[state_machine.current_state])
        => /\ last_call'.ret = TRUE
           /\ state_machine'.previous_state = state_machine.current_state
           /\ state_machine'.current_state = Target
           /\ state_machine'.state_enter_time = now
           /\ state_machine'.transition_count = state_machine.transition_count + 1
           /\ state_machine'.state_history =
                  Append(state_machine.state_history,
                         [state |-> Target, timestamp |-> now, reason |-> Reason])
           /\ state_machine'.state_callbacks = state_machine.state_callbacks
           /\ callback_calls' =
                  [s \in SystemState |->
                      IF s = Target /\ s \in state_machine.state_callbacks
                      THEN callback_calls[s] + 1
                      ELSE callback_calls[s]]
      ]_vars

\* an accepted call into a state with a callback, later than the entry before
C3_Witness ==
    /\ last_call.op = "transition_to"
    /\ last_call.ret = TRUE
    /\ state_machine.current_state \in state_machine.state_callbacks
    /\ callback_calls[state_machine.current_state] = 1
    /\ Cardinality(state_machine.state_callbacks) = 2
    /\ state_machine.state_enter_time > Epoch
    /\ state_machine.state_history[Len(state_machine.state_history)].timestamp
           > state_machine.state_history[1].timestamp

----------------------------------------------------------------------------
(* Properties of the control loop, checked under Spec *)

FrameCall == IsCall /\ last_call'.op = "frame"

\* the trigger boolean of the frame being processed, from its inputs
FrameTrigger == (last_call'.arg[1] \/ last_call'.arg[2]) /\ system_armed

TimeInState == now - state_machine.state_enter_time

\* the states entered during the step, from the history entries it appended
Entered ==
    { state_machine'.state_history[i].state :
        i \in Len(state_machine.state_history) + 1
                .. Len(state_machine'.state_history) }

\* C4: the controller enters ALARM only on a frame processed in ALERT with a
\* true trigger and more than 2 seconds in ALERT; such a frame does enter
\* ALARM; and a true-trigger frame in ALERT before that leaves the state and
\* its entry time as they are.
C4_AlarmAfterDwell ==
    [][ /\ "ALARM" \in Entered =>
            /\ FrameCall
            /\ state_machine.current_state = "ALERT"
            /\ FrameTrigger
            /\ TimeInState > 2
        /\ (FrameCall /\ state_machine.current_state = "ALERT" /\ FrameTrigger) =>
            IF TimeInState > 2
            THEN "ALARM" \in Entered
            ELSE /\ state_machine'.current_state = "ALERT"
                 /\ state_machine'.state_enter_time
                        = state_machine.state_enter_time
      ]_vars

\* a frame raised the alarm; the ALERT state had been entered more than
\* 2 seconds earlier and true-trigger frames were possible in between
C4_Witness ==
    /\ last_call.op = "frame"
    /\ state_machine.previous_state = "ALARM"
    /\ state_machine.current_state = "COOLDOWN"
    /\ alarm_system.trigger_count = 1

\* C5: a frame processed in COOLDOWN after more than the cooldown period
\* returns the controller to MONITORING, whatever the trigger of the frame.
C5_CooldownEndsOnAnyFrame ==
    [][ (/\ FrameCall
         /\ state_machine.current_state = "COOLDOWN"
         /\ TimeInState > alarm_system.cooldown_period)
        => state_machine'.current_state = "MONITORING"
      ]_vars

\* C6: a frame processed in ALERT with a false trigger returns the controller
\* to MONITORING, however long it has been in ALERT, and does not enter ALARM.
C6_FalseTriggerLeavesAlert ==
    [][ (FrameCall /\ state_machine.current_state = "ALERT" /\ ~ FrameTrigger)
        => /\ state_machine'.current_state = "MONITORING"
           /\ Entered = {"MONITORING"}
      ]_vars

\* a false alarm after more than the dwell time in ALERT
C6_Witness ==
    LET h == state_machine.state_history
    IN  /\ last_call.op = "frame"
        /\ state_machine.current_state = "MONITORING"
        /\ state_machine.previous_state = "ALERT"
        /\ h[Len(h)].reason = "False alarm"
        /\ h[Len(h)].timestamp - h[Len(h) - 1].timestamp > 2

\* C7: a frame processed in MONITORING moves the controller to ALERT if and
\* only if (motion_present OR unknown_identity) AND system_armed; and no step
\* taken while the system is disarmed enters ALERT or ALARM.
C7_AlertIffArmedTrigger ==
    [][ /\ (FrameCall /\ state_machine.current_state = "MONITORING") =>
            ( (state_machine'.current_state = "ALERT")
              <=> ((last_call'.arg[1] \/ last_call'.arg[2]) /\ system_armed) )
        /\ ~ system_armed => Entered \cap {"ALERT", "ALARM"} = {}
      ]_vars

\* a frame with motion and an unknown face, processed in MONITORING while
\* disarmed, left the controller in MONITORING
C7_Witness ==
    /\ last_call.op = "frame"
    /\ last_call.arg = << TRUE, TRUE >>
    /\ ~ system_armed
    /\ state_machine.current_state = "MONITORING"

----------------------------------------------------------------------------
(* Properties of the cooldown timer *)

TriggerCall == IsCall /\ last_call'.op = "trigger"

\* the window is open: the timer is enabled and the cooldown has elapsed
WindowOpen ==
    /\ alarm_system.enabled
    /\ now - alarm_system.last_trigger_time >= alarm_system.cooldown_period

\* C8 (SpecTimerSeq): in a sequential series of trigger() calls, trigger_count
\* grows by exactly 1 on each call made with the timer enabled and at least
\* the cooldown elapsed since last_trigger_time, and is unchanged by every
\* other call and by every other step.
C8_CountsOpenWindowCalls ==
    [][ alarm_system'.trigger_count =
            alarm_system.trigger_count
              + (IF TriggerCall /\ WindowOpen THEN 1 ELSE 0)
      ]_vars

\* a second firing, with a refused call after it in the same window
C8_Witness ==
    /\ alarm_system.cooldown_period > 0
    /\ alarm_system.trigger_count = 2
    /\ last_call.op = "trigger"
    /\ last_call.ret = FALSE
    /\ now - alarm_system.last_trigger_time < alarm_system.cooldown_period

\* C9 (SpecTimer): with several threads calling trigger(), a call that fires
\* after an earlier firing does so at least the cooldown period after it.
C9_FiringsOneCooldownApart ==
    [][ (/\ alarm_system'.trigger_count > alarm_system.trigger_count
         /\ alarm_system.trigger_count > 0)
        => now - alarm_system.last_trigger_time >= alarm_system.cooldown_period
      ]_vars

\* C10 (SpecTimerSeq): a trigger() call made while can_trigger() is false
\* leaves trigger_count, last_trigger_time and the active flag (every field
\* of the timer) unchanged and starts no output thread.
C10_BlockedTriggerIsNoOp ==
    [][ (TriggerCall /\ ~ WindowOpen)
        => /\ alarm_system' = alarm_system
           /\ alarm_threads' = alarm_threads
           /\ last_call'.ret = FALSE
      ]_vars

\* a refused call inside the window of a firing whose output is still active
C10_Witness ==
    /\ last_call.op = "trigger"
    /\ last_call.ret = FALSE
    /\ alarm_system.enabled
    /\ alarm_system.is_active
    /\ alarm_system.trigger_count = 1
    /\ now > alarm_system.last_trigger_time

----------------------------------------------------------------------------
(* CircularFrameBuffer used by concurrent threads.  Every method runs in one
   critical section of the buffer's lock, so a call is one step and the
   behaviours are the interleavings of the threads' calls. *)

InitRing ==
    /\ InitController(TRUE, MaxCooldown)
    /\ \E capacity \in 1 .. MaxCapacity : InitMemory(capacity, 1)
    /\ InitLocks
    /\ InitVision(1, 0)
    /\ InitArchitecture(1, 1)

ring_frame ==
    << now, fsm_vars, alarm_vars, loop_vars, cache, cache_trace, lock_vars, vision_vars, arch_vars >>

Write(frame) ==
    /\ ring.write_count < MaxWrites
    /\ ring.overflow_count < MaxWrites
    /\ LET r == buffer_write_outcome(ring, frame)
       IN  /\ ring' = r.rb
           /\ ring_trace' = IF r.exc # NoError
                            THEN ring_trace
                            ELSE [ring_trace EXCEPT
                                      !.written = Append(@, frame)]
           /\ last_call' = IF r.exc # NoError
                           THEN Raise("write", << frame >>, r.exc)
                           ELSE Call("write", << frame >>, TRUE)
    /\ UNCHANGED ring_frame

Read ==
    /\ LET r == buffer_read(ring)
       IN  /\ ring' = r.rb
           /\ ring_trace' = IF r.ret = None
                            THEN ring_trace
                            ELSE [ring_trace EXCEPT !.read = Append(@, r.ret)]
           /\ last_call' = CallValue("read", << >>, r.ret)
    /\ UNCHANGED ring_frame

Peek ==
    /\ last_call' = CallValue("peek", << >>, buffer_peek(ring))
    /\ UNCHANGED << ring, ring_trace >>
    /\ UNCHANGED ring_frame

GetLatest ==
    /\ last_call' = CallValue("get_latest", << >>,
                            buffer_get_latest(ring))
    /\ UNCHANGED << ring, ring_trace >>
    /\ UNCHANGED ring_frame

Clear ==
    /\ ring' = buffer_clear(ring)
    /\ ring_trace' = [ring_trace EXCEPT !.cleared = TRUE]
    /\ last_call' = CallValue("clear", << >>, None)
    /\ UNCHANGED ring_frame

NextRing ==
    \/ \E frame \in Frames : Write(frame)
    \/ Read
    \/ Peek
    \/ GetLatest
    \/ Clear

SpecRing == InitRing /\ [][NextRing]_vars

----------------------------------------------------------------------------
(* LRUCache used by concurrent threads.  get, put, remove and clear each run in
   one critical section of the cache's lock, so a call is one step. *)

InitCache ==
    /\ InitController(TRUE, MaxCooldown)
    /\ \E capacity \in 1 .. MaxCacheCapacity : InitMemory(1, capacity)
    /\ InitLocks
    /\ InitVision(1, 0)
    /\ InitArchitecture(1, 1)

cache_frame ==
    << now, fsm_vars, alarm_vars, loop_vars, ring, ring_trace, lock_vars, vision_vars, arch_vars >>

Get(key) ==
    /\ cache.access_count < MaxAccesses
    /\ LET r == cache_get(cache, key)
           hit == HasKey(cache.cache, key)
       IN  /\ cache' = r.c
           /\ cache_trace' =
                  [order |-> IF hit THEN Touch(cache_trace.order, key)
                                    ELSE cache_trace.order,
                   hit   |-> IF hit /\ Len(cache.cache) = cache.capacity
                             THEN key ELSE NoKey,
                   puts  |-> 0,
                   updated |-> FALSE]
           /\ last_call' = CallValue("cache_get", << key >>, r.ret)
    /\ UNCHANGED cache_frame

Put(key, value) ==
    /\ LET r == cache_put_outcome(cache, key, value)
           new == ~HasKey(cache.cache, key)
       IN  /\ r.c.eviction_count <= MaxEvictions
           /\ cache' = r.c
           /\ cache_trace' =
                  IF r.exc # NoError
                  THEN cache_trace
                  ELSE [order |-> Stored(Touch(cache_trace.order, key), r.c),
                        hit   |-> IF new /\ cache_trace.puts < cache.capacity
                                  THEN cache_trace.hit ELSE NoKey,
                        puts  |-> IF new /\ cache_trace.puts < cache.capacity
                                         /\ cache_trace.hit # NoKey
                                  THEN cache_trace.puts + 1 ELSE 0,
                        updated |-> ~new]
           /\ last_call' = IF r.exc # NoError
                           THEN Raise("cache_put", << key, value >>, r.exc)
                           ELSE CallValue("cache_put", << key, value >>, None)
    /\ UNCHANGED cache_frame

Remove(key) ==
    /\ LET r == cache_remove(cache, key)
       IN  /\ cache' = r.c
           /\ cache_trace' = [order |-> Stored(cache_trace.order, r.c),
                              hit   |-> NoKey,
                              puts  |-> 0,
                              updated |-> FALSE]
           /\ last_call' = Call("cache_remove", << key >>, r.ret)
    /\ UNCHANGED cache_frame

CacheClear ==
    /\ cache' = cache_clear(cache)
    /\ cache_trace' = CacheTraceInit
    /\ last_call' = CallValue("cache_clear", << >>, None)
    /\ UNCHANGED cache_frame

NextCache ==
    \/ \E key \in Keys : Get(key)
    \/ \E key \in Keys, value \in Values : Put(key, value)
    \/ \E key \in Keys : Remove(key)
    \/ CacheClear

SpecCache == InitCache /\ [][NextCache]_vars

----------------------------------------------------------------------------
(* Construction with any capacity, zero included *)

NewBuffer(capacity) ==
    /\ ring' = RingInit(capacity)
    /\ ring_trace' = [written |-> << >>, read |-> << >>, cleared |-> FALSE]
    /\ last_call' = Call("CircularFrameBuffer", << capacity >>, TRUE)
    /\ UNCHANGED ring_frame

NewCache(capacity) ==
    /\ cache' = CacheInit(capacity)
    /\ cache_trace' = CacheTraceInit
    /\ last_call' = Call("LRUCache", << capacity >>, TRUE)
    /\ UNCHANGED cache_frame

\* what is stored plays no part here: one frame, two keys, one value
NextCapacity ==
    \/ \E capacity \in 0 .. MaxCapacity : NewBuffer(capacity)
    \/ \E capacity \in 0 .. MaxCacheCapacity : NewCache(capacity)
    \/ Write(1)
    \/ \E key \in LockKeys : Put(key, 1)

SpecCapacity == InitFSM /\ [][NextCapacity]_vars

----------------------------------------------------------------------------
(* Threads and locks.  Each object guards its methods with one
   threading.Lock, which is not reentrant: a thread that asks for a lock is
   held up until the lock is free, also when the holder is that thread.  A
   call is the sequence of lock operations of its body; its effect on the
   object becomes visible when its last lock is released. *)

Step(do, lock) == [do |-> do, lock |-> lock]

\* with self.lock: body
Locked(lock, body) ==
    << Step("acquire", lock) >> \o body \o << Step("release", lock) >>

ACall(op, arg) == [op |-> op, arg |-> arg]

\* a callback registered with a state machine that threads share reads that
\* state machine: it calls get_current_state.  transition_to invokes it inside
\* its own critical section, after a valid transition.
Callback(new_state) ==
    IF /\ is_valid_transition(state_machine.current_state, new_state)
       /\ new_state \in state_machine.state_callbacks
    THEN Locked("state_machine", << >>)
    ELSE << >>

\* the statements of CircularFrameBuffer.write and read inside their critical
\* sections, one step each (the overflow branch of write is one step)
WriteBody ==
    << Step("make_room", "ring"), Step("store", "ring"),
       Step("move_head", "ring"), Step("grow", "ring"),
       Step("count_write", "ring") >>

ReadBody ==
    << Step("check_empty", "ring"), Step("fetch", "ring"),
       Step("clear_slot", "ring"), Step("move_tail", "ring"),
       Step("shrink", "ring"), Step("count_read", "ring") >>

Program(c) ==
    CASE c.op = "transition_to"      ->
             Locked("state_machine", Callback(c.arg[1]))
      [] c.op = "get_current_state"  -> Locked("state_machine", << >>)
      [] c.op = "get_time_in_state"  -> Locked("state_machine", << >>)
      [] c.op = "get_stats"          ->
             Locked("state_machine", Locked("state_machine", << >>))
      [] c.op = "cache_get"          -> Locked("cache", << >>)
      [] c.op = "cache_put"          -> Locked("cache", << >>)
      [] c.op = "cache_remove"       -> Locked("cache", << >>)
      [] c.op = "cache_clear"        -> Locked("cache", << >>)
      [] c.op = "cache_get_hit_rate" -> Locked("cache", << >>)
      [] c.op = "cache_get_stats"    ->
             Locked("cache", Locked("cache", << >>))
      [] c.op = "ring_write"         -> Locked("ring", WriteBody)
      [] c.op = "ring_read"          -> Locked("ring", ReadBody)

\* what a completed call leaves behind: the objects and the value returned
Outcome(c) ==
    LET same == [sm |-> state_machine, called |-> << >>, cache |-> cache,
                 ret |-> TRUE, val |-> None]
    IN  CASE c.op = "transition_to" ->
                 LET r == transition_to(state_machine, c.arg[1], c.arg[2], now)
                 IN  [same EXCEPT !.sm = r.sm, !.called = r.called,
                                  !.ret = r.ret]
          [] c.op = "get_time_in_state" ->
                 [same EXCEPT !.val = get_time_in_state(state_machine, now)]
          [] c.op = "cache_get" ->
                 LET r == cache_get(cache, c.arg[1])
                 IN  [same EXCEPT !.cache = r.c, !.ret = r.ret # None,
                                  !.val = r.ret]
          [] c.op = "cache_put" ->
                 [same EXCEPT !.cache = cache_put(cache, c.arg[1], c.arg[2])]
          [] c.op = "cache_remove" ->
                 LET r == cache_remove(cache, c.arg[1])
                 IN  [same EXCEPT !.cache = r.c, !.ret = r.ret]
          [] c.op = "cache_clear" ->
                 [same EXCEPT !.cache = cache_clear(cache)]
          [] c.op = "cache_get_hit_rate" ->
                 [same EXCEPT !.val = cache_get_hit_rate(cache)]
          [] c.op = "ring_read" ->
                 [same EXCEPT !.ret = c.arg # << >>,
                              !.val = IF c.arg = << >> THEN None ELSE c.arg[1]]
          [] OTHER -> same

\* the calls are kept within the bounds of the model
InBounds(c) ==
    CASE c.op = "transition_to" ->
             state_machine.transition_count < MaxTransitions
      [] c.op = "cache_get" -> cache.access_count < MaxAccesses
      [] c.op = "ring_write" -> Len(ring_trace.written) < MaxItems
      [] c.op = "cache_put" ->
             cache_put(cache, c.arg[1], c.arg[2]).eviction_count
                 <= MaxEvictions
      [] OTHER -> TRUE

Invoke(th, c) ==
    /\ call[th] = NoCall
    /\ InBounds(c)
    /\ call' = [call EXCEPT ![th] = c]
    /\ prog' = [prog EXCEPT ![th] = Program(c)]
    /\ UNCHANGED << now, fsm_vars, alarm_vars, loop_vars, last_call, mem_vars,
                    locks, vision_vars, arch_vars >>

\* faulty variant: the lock is taken also while another thread holds it
Acquire_held_lock(th) ==
    /\ prog[th] # << >>
    /\ Head(prog[th]).do = "acquire"
    /\ locks' = [locks EXCEPT ![Head(prog[th]).lock] = th]
    /\ prog' = [prog EXCEPT ![th] = Tail(@)]
    /\ UNCHANGED << now, fsm_vars, alarm_vars, loop_vars, last_call, mem_vars,
                    call, vision_vars, arch_vars >>

\* lock.acquire(): goes through only while the lock is free
Acquire(th) ==
    /\ prog[th] # << >>
    /\ Head(prog[th]).do = "acquire"
    /\ locks[Head(prog[th]).lock] = Free
    /\ locks' = [locks EXCEPT ![Head(prog[th]).lock] = th]
    /\ prog' = [prog EXCEPT ![th] = Tail(@)]
    /\ UNCHANGED << now, fsm_vars, alarm_vars, loop_vars, last_call, mem_vars,
                    call, vision_vars, arch_vars >>

\* one statement of a critical section of the ring buffer.  The frame that
\* read() fetched is a local variable of the call, kept with the call.
Run(th) ==
    /\ prog[th] # << >>
    /\ Head(prog[th]).do \notin {"acquire", "release"}
    /\ LET do == Head(prog[th]).do
           empty == do = "check_empty" /\ ring.size = 0
       IN  /\ ring' =
                 CASE do = "make_room"   -> buffer_make_room(ring)
                   [] do = "store"       ->
                          [ring EXCEPT !.buffer[ring.head] = call[th].arg[1]]
                   [] do = "move_head"   ->
                          [ring EXCEPT !.head = (@ + 1) % ring.capacity]
                   [] do = "grow"        -> [ring EXCEPT !.size = @ + 1]
                   [] do = "count_write" -> [ring EXCEPT !.write_count = @ + 1]
                   [] do = "clear_slot"  ->
                          [ring EXCEPT !.buffer[ring.tail] = None]
                   [] do = "move_tail"   ->
                          [ring EXCEPT !.tail = (@ + 1) % ring.capacity]
                   [] do = "shrink"      -> [ring EXCEPT !.size = @ - 1]
                   [] do = "count_read"  -> [ring EXCEPT !.read_count = @ + 1]
                   [] OTHER              -> ring
           /\ ring_trace' =
                 CASE do = "store" ->
                          [ring_trace EXCEPT
                              !.written = Append(@, call[th].arg[1])]
                   [] do = "fetch" ->
                          [ring_trace EXCEPT
                              !.read = Append(@, ring.buffer[ring.tail])]
                   [] OTHER -> ring_trace
           /\ call' = IF do = "fetch"
                      THEN [call EXCEPT ![th].arg = << ring.buffer[ring.tail] >>]
                      ELSE call
           /\ prog' = [prog EXCEPT
                          ![th] = IF empty THEN << Step("release", "ring") >>
                                  ELSE Tail(@)]
    /\ UNCHANGED << now, fsm_vars, alarm_vars, loop_vars, last_call, cache,
                    cache_trace, locks, vision_vars, arch_vars >>

\* lock.release(); the call returns with the release of its last lock
Release(th) ==
    /\ prog[th] # << >>
    /\ Head(prog[th]).do = "release"
    /\ locks' = [locks EXCEPT ![Head(prog[th]).lock] = Free]
    /\ prog' = [prog EXCEPT ![th] = Tail(@)]
    /\ IF Tail(prog[th]) = << >>
       THEN LET r == Outcome(call[th])
            IN  /\ state_machine' = r.sm
                /\ callback_calls' = CountCalls(callback_calls, r.called)
                /\ cache' = r.cache
                /\ last_call' = [seq |-> 1 - last_call.seq,
                                 op  |-> call[th].op,
                                 arg |-> call[th].arg,
                                 ret |-> r.ret,
                                 val |-> r.val,
                                 exc |-> NoError]
                /\ call' = [call EXCEPT ![th] = NoCall]
       ELSE UNCHANGED << fsm_vars, cache, last_call, call >>
    /\ UNCHANGED << now, alarm_vars, loop_vars, ring, ring_trace,
                    cache_trace, vision_vars, arch_vars >>

\* the processing thread is the only writer of the state machine; statistics
\* are read from a reporting thread
StateMachineCalls(th) ==
    IF th = "processing"
    THEN { ACall("transition_to", << s, "Test" >>) : s \in SystemState }
             \cup { ACall("get_time_in_state", << >>),
                    ACall("get_current_state", << >>) }
    ELSE { ACall("get_stats", << >>), ACall("get_current_state", << >>) }

NextStateMachineLock ==
    \E th \in LockThreads :
        \/ \E c \in StateMachineCalls(th) : Invoke(th, c)
        \/ Acquire(th)
        \/ Release(th)

SpecStateMachineLock == InitFSM /\ [][NextStateMachineLock]_vars

\* the same threads, with callbacks registered before the transitions
CallbackCalls(th) ==
    IF th = "processing"
    THEN { ACall("transition_to", << s, "Test" >>) : s \in SystemState }
    ELSE { ACall("get_current_state", << >>) }

NextCallbackLock ==
    \/ \E state \in CallbackStates : RegisterCallback(state)
    \/ \E th \in LockThreads :
          \/ \E c \in CallbackCalls(th) : Invoke(th, c)
          \/ Acquire(th)
          \/ Release(th)

SpecCallbackLock == InitFSM /\ [][NextCallbackLock]_vars

CacheCalls(th) ==
    IF th = "processing"
    THEN { ACall("cache_get", << k >>) : k \in LockKeys }
             \cup { ACall("cache_put", << k, v >>) :
                        k \in LockKeys, v \in Values }
             \cup { ACall("cache_remove", << k >>) : k \in LockKeys }
             \cup { ACall("cache_clear", << >>) }
    ELSE { ACall("cache_get_stats", << >>),
           ACall("cache_get_hit_rate", << >>) }

InitCacheLock ==
    /\ InitController(TRUE, MaxCooldown)
    /\ \E capacity \in 1 .. MaxCacheCapacity : InitMemory(1, capacity)
    /\ InitLocks
    /\ InitVision(1, 0)
    /\ InitArchitecture(1, 1)

NextCacheLock ==
    \E th \in LockThreads :
        \/ \E c \in CacheCalls(th) : Invoke(th, c)
        \/ Acquire(th)
        \/ Release(th)

SpecCacheLock == InitCacheLock /\ [][NextCacheLock]_vars

\* one producer and two consumers of a ring buffer; the producer numbers its
\* frames in the order in which it writes them
RingThreads == {"producer", "consumer1", "consumer2"}

RingCalls(th) ==
    IF th = "producer"
    THEN { ACall("ring_write", << Len(ring_trace.written) + 1 >>) }
    ELSE { ACall("ring_read", << >>) }

InitRingLock ==
    /\ InitController(TRUE, MaxCooldown)
    /\ \E capacity \in 1 .. 2 : InitMemory(capacity, 1)
    /\ locks = [l \in LockNames |-> Free]
    /\ prog = [th \in RingThreads |-> << >>]
    /\ call = [th \in RingThreads |-> NoCall]
    /\ InitVision(1, 0)
    /\ InitArchitecture(1, 1)

NextRingLock ==
    \E th \in RingThreads :
        \/ \E c \in RingCalls(th) : Invoke(th, c)
        \/ Acquire(th)
        \/ Run(th)
        \/ Release(th)

SpecRingLock == InitRingLock /\ [][NextRingLock]_vars

\* the thread waits for a lock that it holds itself: nothing can release it
WaitsForOwnLock(th) ==
    /\ prog[th] # << >>
    /\ Head(prog[th]).do = "acquire"
    /\ locks[Head(prog[th]).lock] = th

----------------------------------------------------------------------------
(* C11: stopping the control loop *)

StopCall == IsCall /\ last_call'.op = "stop"

\* C11: after stop() of a running system the current state is IDLE, from
\* whichever state the loop was in when it stopped.
\* stop() asks for IDLE through transition_to, which the table refuses from
\* ALERT and from ALARM, so this does not hold.
C11_StopResetsToIdle ==
    [][StopCall => state_machine'.current_state = "IDLE"]_vars

----------------------------------------------------------------------------
(* C12, C13: statistics under the objects' own locks *)

\* C12: StateMachine.get_stats() always returns: it never blocks forever on
\* the state machine's own lock (and the writer's later transition_to calls
\* complete).
\* get_stats calls get_time_in_state while it holds the lock that
\* get_time_in_state asks for, so the call never returns.
C12_GetStatsReturns ==
    \A th \in LockThreads :
        call[th].op = "get_stats" => ~WaitsForOwnLock(th)

\* C13: LRUCache.get_stats() always returns: it never blocks beyond taking the
\* cache's lock once.
\* get_stats calls get_hit_rate while it holds the lock that get_hit_rate asks
\* for, so the call never returns.
C13_CacheGetStatsReturns ==
    \A th \in LockThreads :
        call[th].op = "cache_get_stats" => ~WaitsForOwnLock(th)

----------------------------------------------------------------------------
(* C14: the sequence of demo.py *)

DemoSequence ==
    << "IDLE", "MONITORING", "ALERT", "ALARM", "COOLDOWN", "MONITORING" >>

Visited == [i \in 1 .. Len(state_machine.state_history) |->
               state_machine.state_history[i].state]

\* C14: after IDLE -> MONITORING -> ALERT -> ALARM -> COOLDOWN -> MONITORING a
\* direct transition_to(IDLE) is blocked: it returns false and the state stays
\* MONITORING.
\* The table has the edge MONITORING -> IDLE, so the call succeeds.
C14_DemoIdleIsBlocked ==
    [][(TransitionCall /\ Target = "IDLE" /\ Visited = DemoSequence)
          => /\ last_call'.ret = FALSE
             /\ state_machine'.current_state = "MONITORING"]_vars

----------------------------------------------------------------------------
(* C15 .. C20: the ring buffer *)

WriteCall == IsCall /\ last_call'.op = "write"
ReadCall == IsCall /\ last_call'.op = "read"
PeekCall == IsCall /\ last_call'.op = "peek"
LatestCall == IsCall /\ last_call'.op = "get_latest"
ClearCall == IsCall /\ last_call'.op = "clear"

\* the live items, oldest first
Live(rb) ==
    [i \in 1 .. rb.size |-> rb.buffer[(rb.tail + i - 1) % rb.capacity]]

\* only writes have changed the buffer since it was constructed
OnlyWritten == ~ring_trace.cleared /\ ring.read_count = 0

\* C15: from an empty buffer of capacity N, after M > N writes and no read:
\* size = N, overflow_count = M - N, write_count = M, get_latest() is the M-th
\* item written and peek() is the (M-N+1)-th.
C15_OverflowKeepsNewest ==
    LET M == Len(ring_trace.written)
        N == ring.capacity
    IN  (OnlyWritten /\ M > N)
            => /\ ring.size = N
               /\ ring.overflow_count = M - N
               /\ ring.write_count = M
               /\ buffer_get_latest(ring) = ring_trace.written[M]
               /\ buffer_peek(ring) = ring_trace.written[M - N + 1]

C15_Witness ==
    /\ OnlyWritten
    /\ ring.capacity = 2
    /\ ring.write_count = 4
    /\ ring.overflow_count = 2
    /\ ring_trace.written[3] # ring_trace.written[4]
    /\ last_call.op = "write"

\* exactly N items were written to the new buffer of capacity N and all N have
\* been read
RoundTripDone ==
    /\ ~ring_trace.cleared
    /\ ring.write_count = ring.capacity
    /\ ring.read_count = ring.capacity

\* C16: N writes into an empty buffer of capacity N followed by N reads give
\* the N items in the order written, none dropped, and one more read gives None.
C16_RoundTrip ==
    RoundTripDone
        => /\ ring_trace.read = ring_trace.written
           /\ ring.overflow_count = 0
           /\ ring.size = 0
           /\ buffer_read(ring).ret = None

C16_Witness ==
    /\ RoundTripDone
    /\ ring.capacity = MaxCapacity
    /\ ring_trace.read[1] # ring_trace.read[2]
    /\ last_call.op = "read"
    /\ last_call.val # None

RingShape ==
    /\ ring.size \in 0 .. ring.capacity
    /\ ring.head = (ring.tail + ring.size) % ring.capacity

\* C17: in every reachable state 0 <= size <= N and head = (tail + size) mod N;
\* a write on the full buffer leaves size at N, moves tail on by one (the
\* oldest item is dropped) and adds exactly 1 to overflow_count; a write on a
\* buffer that is not full leaves overflow_count alone.
C17_ShapeAndOverflow ==
    /\ []RingShape
    /\ [][WriteCall =>
            IF ring.size = ring.capacity
            THEN /\ ring'.size = ring.capacity
                 /\ ring'.tail = (ring.tail + 1) % ring.capacity
                 /\ ring'.overflow_count = ring.overflow_count + 1
                 /\ Live(ring') = Append(Tail(Live(ring)), last_call'.arg[1])
            ELSE /\ ring'.overflow_count = ring.overflow_count
                 /\ Live(ring') = Append(Live(ring), last_call'.arg[1])]_vars

C17_Witness ==
    /\ last_call.op = "write"
    /\ ring_trace.cleared
    /\ ring.read_count > 0
    /\ ring.overflow_count > 0
    /\ ring.size = ring.capacity
    /\ ring.capacity > 1
    /\ ring.tail # 0

\* C18: read() on the empty buffer returns None and changes nothing.
C18_EmptyReadIsNoOp ==
    [][(ReadCall /\ ring.size = 0)
          => /\ last_call'.val = None
             /\ ring' = ring]_vars

C18_Witness ==
    /\ last_call.op = "read"
    /\ last_call.val = None
    /\ ring.size = 0
    /\ ring.read_count > 0

\* C19: peek() and get_latest() leave the buffer as it is; on a buffer that is
\* not empty peek() returns what the next read() would return and get_latest()
\* returns the item of the most recent write, the slot at (head - 1) mod N.
C19_PeekAndLatestOnlyLook ==
    [][/\ (PeekCall \/ LatestCall) => ring' = ring
       /\ (PeekCall /\ ring.size > 0)
             => last_call'.val = buffer_read(ring).ret
       /\ (LatestCall /\ ring.size > 0)
             => /\ last_call'.val = ring.buffer[(ring.head - 1) % ring.capacity]
                /\ last_call'.val
                       = ring_trace.written[Len(ring_trace.written)]]_vars

C19_Witness ==
    /\ last_call.op = "get_latest"
    /\ ring.size > 1
    /\ ring.overflow_count > 0
    /\ last_call.val # buffer_peek(ring)

\* C20: clear() empties every slot and zeroes head, tail and size, while
\* write_count, read_count and overflow_count keep their values.
C20_ClearKeepsCounters ==
    [][ClearCall
          => /\ \A i \in 0 .. ring.capacity - 1 : ring'.buffer[i] = None
             /\ ring'.head = 0
             /\ ring'.tail = 0
             /\ ring'.size = 0
             /\ ring'.capacity = ring.capacity
             /\ ring'.write_count = ring.write_count
             /\ ring'.read_count = ring.read_count
             /\ ring'.overflow_count = ring.overflow_count]_vars

C20_Witness ==
    /\ last_call.op = "clear"
    /\ ring.size = 0
    /\ ring.write_count > 0
    /\ ring.read_count > 0
    /\ ring.overflow_count > 0

----------------------------------------------------------------------------
(* C21: capacity zero *)

ConstructCall ==
    IsCall /\ last_call'.op \in {"CircularFrameBuffer", "LRUCache"}

\* C21: a capacity of zero is rejected at construction, so that no later write
\* or put runs on a zero-capacity instance and fails there.
\* Both constructors accept 0; the first write then raises ZeroDivisionError
\* and the first put raises KeyError.
C21_ZeroCapacityRejected ==
    [][/\ (ConstructCall /\ last_call'.arg[1] = 0)
             => last_call'.exc # NoError
       /\ (IsCall /\ last_call'.op \in {"write", "cache_put"})
             => last_call'.exc = NoError]_vars

----------------------------------------------------------------------------
(* C22 .. C26: the LRU cache *)

GetCall == IsCall /\ last_call'.op = "cache_get"
PutCall == IsCall /\ last_call'.op = "cache_put"
RemoveCall == IsCall /\ last_call'.op = "cache_remove"

Size(c) == Len(c.cache)

\* C22: in every reachable state of a cache of capacity C >= 1 the number of
\* stored keys is at most C.
C22_SizeWithinCapacity ==
    /\ Size(cache) <= cache.capacity
    /\ Cardinality(StoredKeys(cache)) = Size(cache)

C22_Witness ==
    /\ Size(cache) = cache.capacity
    /\ cache.capacity = MaxCacheCapacity
    /\ cache.eviction_count = MaxEvictions
    /\ last_call.op = "cache_put"

\* C23: a put of a new key into a cache holding C keys evicts exactly one key,
\* the one whose latest touch is the oldest among the stored keys; the
\* eviction counter goes up by 1 and the new key is the most recently used.
C23_EvictsLeastRecentlyTouched ==
    [][(PutCall /\ last_call'.arg[1] \notin StoredKeys(cache)
                /\ Size(cache) = cache.capacity)
          => /\ StoredKeys(cache') =
                    (StoredKeys(cache) \ {cache_trace.order[1]})
                        \cup {last_call'.arg[1]}
             /\ Size(cache') = cache.capacity
             /\ cache'.eviction_count = cache.eviction_count + 1
             /\ cache'.cache[Size(cache')] =
                    Entry(last_call'.arg[1], last_call'.arg[2])]_vars

C23_Witness ==
    /\ last_call.op = "cache_put"
    /\ cache.capacity = MaxCacheCapacity
    /\ cache.eviction_count > 0
    /\ cache.hit_count > 0
    /\ ~cache_trace.updated

\* C24: in a full cache of capacity C, after a get that hit key k followed
\* only by puts of new keys, k is still stored after each of the first C-1
\* puts and is evicted by the C-th.
C24_HitKeyOutlivesOthers ==
    cache_trace.hit # NoKey
        => IF cache_trace.puts < cache.capacity
           THEN cache_trace.hit \in StoredKeys(cache)
           ELSE cache_trace.hit \notin StoredKeys(cache)

C24_Witness ==
    /\ cache_trace.hit # NoKey
    /\ cache.capacity = MaxCacheCapacity
    /\ cache_trace.puts = cache.capacity
    /\ cache_trace.hit \notin StoredKeys(cache)

\* the entries of keys other than key, in their order
Others(c, key) == SelectSeq(c.cache, LAMBDA e : e.key # key)

\* C25: put(k, v) on a stored key k replaces its value by v and makes k the
\* most recently used, without an eviction: the stored keys, the size and the
\* eviction counter are unchanged, also when the cache is full.
C25_UpdatePromotesWithoutEviction ==
    [][(PutCall /\ last_call'.arg[1] \in StoredKeys(cache))
          => /\ StoredKeys(cache') = StoredKeys(cache)
             /\ Size(cache') = Size(cache)
             /\ cache'.eviction_count = cache.eviction_count
             /\ cache'.cache[Size(cache')] =
                    Entry(last_call'.arg[1], last_call'.arg[2])
             /\ Others(cache', last_call'.arg[1])
                    = Others(cache, last_call'.arg[1])]_vars

C25_Witness ==
    /\ last_call.op = "cache_put"
    /\ cache_trace.updated
    /\ Size(cache) = cache.capacity
    /\ cache.capacity = MaxCacheCapacity
    /\ cache.eviction_count = 0
    /\ last_call.arg[2] = 2

CountersAddUp == cache.hit_count + cache.miss_count = cache.access_count

\* C26: every get adds 1 to access_count; a hit adds 1 to hit_count only and
\* makes the key the most recently used, a miss adds 1 to miss_count only,
\* returns None and leaves the stored keys and their order alone; so
\* hit_count + miss_count = access_count always, and put and remove never
\* change the three counters.
C26_GetCounts ==
    /\ []CountersAddUp
    /\ [][GetCall =>
             /\ cache'.access_count = cache.access_count + 1
             /\ cache'.eviction_count = cache.eviction_count
             /\ IF last_call'.arg[1] \in StoredKeys(cache)
                THEN /\ cache'.hit_count = cache.hit_count + 1
                     /\ cache'.miss_count = cache.miss_count
                     /\ cache'.cache[Size(cache')].key = last_call'.arg[1]
                     /\ last_call'.val = cache'.cache[Size(cache')].value
                     /\ Others(cache', last_call'.arg[1])
                            = Others(cache, last_call'.arg[1])
                     /\ Size(cache') = Size(cache)
                ELSE /\ cache'.miss_count = cache.miss_count + 1
                     /\ cache'.hit_count = cache.hit_count
                     /\ last_call'.val = None
                     /\ cache'.cache = cache.cache]_vars
    /\ [][(PutCall \/ RemoveCall) =>
             /\ cache'.access_count = cache.access_count
             /\ cache'.hit_count = cache.hit_count
             /\ cache'.miss_count = cache.miss_count]_vars

C26_Witness ==
    /\ last_call.op = "cache_get"
    /\ last_call.val # None
    /\ cache.hit_count > 0
    /\ cache.miss_count > 0
    /\ cache.cache[1].key # last_call.arg[1]
----------------------------------------------------------------------------
(* Calls on a MotionDetector object *)

MaxDetects == 3

InitDetector ==
    /\ InitController(TRUE, MaxCooldown)
    /\ InitMemory(1, 1)
    /\ locks = [l \in LockNames |-> Free]
    /\ prog = [th \in LockThreads |-> << >>]
    /\ call = [th \in LockThreads |-> NoCall]
    /\ \E min_contour_area \in 1 .. 2, dilation_iterations \in 0 .. 1 :
          InitVision(min_contour_area, dilation_iterations)
    /\ InitArchitecture(1, 1)

detector_frame ==
    << now, fsm_vars, alarm_vars, loop_vars, mem_vars, lock_vars, recognizer,
       smooth_trace, arch_vars >>

DetectMotion(frame) ==
    /\ detect_trace.calls < MaxDetects
    /\ LET r == detect_motion(detector, frame)
       IN  /\ detector' = r.det
           /\ detect_trace' =
                 [detect_trace EXCEPT
                     !.calls = @ + 1,
                     !.first = IF detect_trace.calls = 0
                               THEN r.det.previous_frame ELSE @,
                     !.areas = IF detector.previous_frame = NoFrame THEN {}
                               ELSE {contourArea(c) : c \in
                                       Regions(detector, pixel_subtraction(
                                           r.det.previous_frame,
                                           detector.previous_frame))}]
           /\ last_call' = Call("detect_motion", <<frame>>, r.motion_detected)
    /\ UNCHANGED detector_frame

ResetMetrics ==
    /\ detector' = reset_metrics(detector)
    /\ detect_trace' = [detect_trace EXCEPT !.metrics_kept = FALSE,
                                            !.areas = {}]
    /\ last_call' = Call("reset_metrics", << >>, TRUE)
    /\ UNCHANGED detector_frame

Reset ==
    /\ detector' = reset(detector)
    /\ detect_trace' = DetectTraceInit
    /\ last_call' = Call("reset", << >>, TRUE)
    /\ UNCHANGED detector_frame

NextDetector ==
    \/ \E frame \in [Columns -> Pixels] : DetectMotion(frame)
    \/ ResetMetrics
    \/ Reset

SpecDetector == InitDetector /\ [][NextDetector]_vars
----------------------------------------------------------------------------
(* C27 .. C29: the motion detector *)

DetectCall == IsCall /\ last_call'.op = "detect_motion"
DetectorResetCall == IsCall /\ last_call'.op = "reset"
Bootstrap == detector.previous_frame = NoFrame
Passed == last_call'.arg[1]

\* C27: the first detect_motion after construction or reset() stores the
\* reduced frame, reports no motion and is not counted: after k >= 1 calls
\* total_frames_processed is k - 1 (as long as reset_metrics was not called in
\* between), motion_detected_count never exceeds total_frames_processed, and
\* reset() makes the next call a first call again
C27_BootstrapNotCounted ==
    /\ [](/\ Bootstrap <=> detect_trace.calls = 0
          /\ (detect_trace.metrics_kept /\ detect_trace.calls >= 1) =>
                detector.total_frames_processed = detect_trace.calls - 1
          /\ detector.motion_detected_count <= detector.total_frames_processed)
    /\ [][(DetectCall /\ Bootstrap) =>
             /\ last_call'.ret = FALSE
             /\ detector'.previous_frame = preprocess_frame(Passed)
             /\ detector'.total_frames_processed =
                   detector.total_frames_processed
             /\ detector'.motion_detected_count =
                   detector.motion_detected_count]_vars
    /\ [][(DetectCall /\ ~Bootstrap) =>
             detector'.total_frames_processed =
                 detector.total_frames_processed + 1]_vars
    /\ [][DetectorResetCall =>
             /\ detector'.previous_frame = NoFrame
             /\ detector'.total_frames_processed = 0
             /\ detector'.motion_detected_count = 0]_vars

C27_Witness ==
    /\ last_call.op = "detect_motion"
    /\ detect_trace.metrics_kept
    /\ detect_trace.calls = 3
    /\ detector.total_frames_processed = 2
    /\ detector.motion_detected_count = 1
\* C28: every detect_motion compares the frame with the frame of the call just
\* before it: afterwards previous_frame is the reduced form of the frame
\* passed; a frame equal to the one of the call before reports no motion; and
\* a frame whose reduced form is within the threshold of the stored one in
\* every pixel reports no motion, however far it is from the first frame
C28_ComparesWithPredecessor ==
    [][DetectCall =>
          /\ detector'.previous_frame = preprocess_frame(Passed)
          /\ (last_call.op = "detect_motion" /\ last_call.arg = <<Passed>>) =>
                last_call'.ret = FALSE
          /\ (/\ ~Bootstrap
              /\ \A i \in Columns :
                    pixel_subtraction(preprocess_frame(Passed),
                                      detector.previous_frame)[i]
                        <= detector.threshold) =>
                last_call'.ret = FALSE]_vars

C28_Witness ==
    /\ last_call.op = "detect_motion"
    /\ last_call.ret = FALSE
    /\ detector.dilation_iterations = 1
    /\ detect_trace.metrics_kept
    /\ detect_trace.calls = 3
    /\ detector.motion_detected_count = 0
    /\ \E i \in Columns :
          pixel_subtraction(detector.previous_frame, detect_trace.first)[i]
              > detector.threshold
----------------------------------------------------------------------------
(* Calls on the temporal smoothing of a FaceRecognizer *)

Smooth(names) ==
    /\ LET r == apply_temporal_smoothing(recognizer, names)
       IN  /\ recognizer' = r.rec
           /\ smooth_trace' = [names |-> names, returned |-> r.names]
           /\ last_call' = Call("_apply_temporal_smoothing", <<names>>, TRUE)
    /\ UNCHANGED << now, fsm_vars, alarm_vars, loop_vars, mem_vars, lock_vars,
                    detector, detect_trace, arch_vars >>

NextStabilizer == \E names \in Detections : Smooth(names)

SpecStabilizer == InitFSM /\ [][NextStabilizer]_vars

----------------------------------------------------------------------------
(* C30: the stabilizer *)

SmoothCall == IsCall /\ last_call'.op = "_apply_temporal_smoothing"
CountsOf(history) == [i \in DOMAIN history |-> Len(history[i])]
Distance(a, b) == IF a >= b THEN a - b ELSE b - a

\* twice the median of a list of counts, which is a whole number also when the
\* median itself is not
TwiceMedian(face_counts) ==
    LET n == Len(face_counts)
    IN  IF n % 2 = 1
        THEN 2 * Sorted(face_counts, (n + 1) \div 2)
        ELSE Sorted(face_counts, n \div 2) + Sorted(face_counts, n \div 2 + 1)

\* the detection passed is turned down: the stable one is returned and kept
TurnedDown ==
    /\ smooth_trace'.returned = recognizer.last_stable_names
    /\ recognizer'.last_stable_names = recognizer.last_stable_names

\* the detection passed is returned and becomes the stable one
Accepted ==
    /\ smooth_trace'.returned = smooth_trace'.names
    /\ recognizer'.last_stable_names = smooth_trace'.names

\* after the counts 0, 0, 0, 5 the fourth output is the stable detection of the
\* third call, which has no face
ExampleHolds ==
    CountsOf(recognizer.face_history) = <<0, 0, 0, 5>> =>
        /\ smooth_trace.returned = << >>
        /\ recognizer.last_stable_names = << >>

\* C30 as stated: once the window, the current detection included, holds at
\* least min_confidence_frames entries, a detection whose count is more than 1
\* away from the median count of the window is turned down and any other is
\* accepted; after the counts 0, 0, 0, 5 the output is the stable one (count 0)
C30_FarFromMedianTurnedDown ==
    /\ []ExampleHolds
    /\ [][(SmoothCall
            /\ Len(recognizer'.face_history) >= min_confidence_frames) =>
             IF Distance(2 * Len(smooth_trace'.names),
                         TwiceMedian(CountsOf(recognizer'.face_history))) > 2
             THEN TurnedDown ELSE Accepted]_vars

\* C30 amended: the count is compared with the median count of the window cut
\* down to a whole number: a detection more than 1 away from it is turned down
\* and any other is accepted; after the counts 0, 0, 0, 5 the output is the
\* stable one (count 0)
C30_FarFromWholeMedianTurnedDown ==
    /\ []ExampleHolds
    /\ [][(SmoothCall
            /\ Len(recognizer'.face_history) >= min_confidence_frames) =>
             IF Distance(Len(smooth_trace'.names),
                         median_count(CountsOf(recognizer'.face_history))) > 1
             THEN TurnedDown ELSE Accepted]_vars

C30_Witness ==
    /\ last_call.op = "_apply_temporal_smoothing"
    /\ CountsOf(recognizer.face_history) = <<0, 0, 0, 5>>
    /\ Len(smooth_trace.names) = 5
    /\ smooth_trace.returned = << >>
----------------------------------------------------------------------------
(* C31: the warm-up of the stabilizer and its window *)

\* C31: while the history, the current detection included, is shorter than
\* min_confidence_frames, the detection passed is returned unchanged and
\* becomes the stable one; the history never holds more than history_length
\* detections, every call appends the detection passed, and a full history
\* loses its oldest entry
C31_WarmUpPassesThrough ==
    /\ [](Len(recognizer.face_history) <= history_length)
    /\ [][(SmoothCall
            /\ Len(recognizer.face_history) + 1 < min_confidence_frames) =>
             Accepted]_vars
    /\ [][SmoothCall =>
             recognizer'.face_history =
                 IF Len(recognizer.face_history) < history_length
                 THEN Append(recognizer.face_history, smooth_trace'.names)
                 ELSE Append(Tail(recognizer.face_history),
                             smooth_trace'.names)]_vars

C31_Witness ==
    /\ last_call.op = "_apply_temporal_smoothing"
    /\ CountsOf(recognizer.face_history) = <<0, 5>>
    /\ smooth_trace.returned = smooth_trace.names
    /\ Len(recognizer.last_stable_names) = 5
----------------------------------------------------------------------------
(* Calls on BooleanLogic, whose methods are static and keep no state *)

Levels == 0 .. 2
Operations ==
    {"greater", "less", "equal", "greater_equal", "less_equal", "between"}

logic_frame ==
    << now, fsm_vars, alarm_vars, loop_vars, mem_vars, lock_vars, vision_vars, arch_vars >>

Gate(op, a, b) ==
    /\ last_call' =
          Call(op, <<a, b>>,
               CASE op = "AND"  -> AND(a, b)
                 [] op = "OR"   -> OR(a, b)
                 [] op = "XOR"  -> XOR(a, b)
                 [] op = "NAND" -> NAND(a, b)
                 [] op = "NOR"  -> NOR(a, b))
    /\ UNCHANGED logic_frame

Not(a) ==
    /\ last_call' = Call("NOT", <<a>>, NOT(a))
    /\ UNCHANGED logic_frame

ThresholdComparison(value, threshold, operation) ==
    /\ last_call' = Call("threshold_comparison", <<value, threshold, operation>>,
                         threshold_comparison(value, threshold, operation))
    /\ UNCHANGED logic_frame

AlarmCondition(motion_detected, face_unknown, armed) ==
    /\ last_call' = Call("alarm_condition",
                         <<motion_detected, face_unknown, armed>>,
                         alarm_condition(motion_detected, face_unknown, armed))
    /\ UNCHANGED logic_frame

NextLogic ==
    \/ \E op \in {"AND", "OR", "XOR", "NAND", "NOR"}, a, b \in BOOLEAN :
          Gate(op, a, b)
    \/ \E a \in BOOLEAN : Not(a)
    \/ \E value, threshold \in Levels, operation \in Operations :
          ThresholdComparison(value, threshold, operation)
    \/ \E motion_detected, face_unknown, armed \in BOOLEAN :
          AlarmCondition(motion_detected, face_unknown, armed)

SpecLogic == InitFSM /\ [][NextLogic]_vars

----------------------------------------------------------------------------
(* C32: the alarm condition *)

\* C32: for each of the 8 combinations of its inputs, alarm_condition returns
\* (motion_detected OR face_unknown) AND system_armed, and so it returns false
\* whenever system_armed is false
C32_AlarmConditionTable ==
    last_call.op = "alarm_condition" =>
        /\ last_call.ret =
              ((last_call.arg[1] \/ last_call.arg[2]) /\ last_call.arg[3])
        /\ ~ last_call.arg[3] => ~ last_call.ret

C32_Witness ==
    /\ last_call.op = "alarm_condition"
    /\ last_call.arg[1] /\ last_call.arg[2] /\ ~ last_call.arg[3]
    /\ ~ last_call.ret
----------------------------------------------------------------------------
(* The control loop over two alarms: the system stays armed and the alarm is
   enabled, so that the cooldown timer is asked a second time *)

MaxTicksLoop == 9
MaxTransitionsLoop == 8

InitAlarmLoop == InitObjects(TRUE, MaxCooldown)

AlarmLoopFrame(motion_detected, unknown_face) ==
    /\ main_pc = "looping"
    /\ running
    /\ LET r == process_frame(state_machine, alarm_system, motion_detected,
                              unknown_face, system_armed, now)
       IN  /\ r.sm.transition_count <= MaxTransitionsLoop
           /\ state_machine' = r.sm
           /\ alarm_system' = r.al
           /\ callback_calls' = CountCalls(callback_calls, r.called)
           /\ alarm_threads' = StartThreads(r.started)
    /\ last_call' = Call("frame",
                         << motion_detected, unknown_face >>, TRUE)
    /\ UNCHANGED << now, tpc, loop_vars, mem_vars, lock_vars, vision_vars, arch_vars >>

TickLoop == now < Epoch + MaxTicksLoop /\ Advance

NextAlarmLoop ==
    \/ Start
    \/ \E motion_detected \in BOOLEAN : AlarmLoopFrame(motion_detected, FALSE)
    \/ TickLoop
    \/ AlarmThreadEnd

SpecAlarmLoop == InitAlarmLoop /\ [][NextAlarmLoop]_vars
----------------------------------------------------------------------------
(* C33: the cooldown timer in the control loop *)

AlarmEntries ==
    {i \in DOMAIN state_machine.state_history :
        state_machine.state_history[i].state = "ALARM"}

\* C33: with the alarm enabled, the timer never holds back an alarm of the
\* control loop: trigger_count is the number of entries into ALARM, and every
\* entry into ALARM is followed in the same frame by the entry into COOLDOWN
C33_TimerNeverSuppresses ==
    /\ alarm_system.enabled =>
          alarm_system.trigger_count = Cardinality(AlarmEntries)
    /\ \A i \in AlarmEntries :
          /\ i < Len(state_machine.state_history)
          /\ state_machine.state_history[i + 1].state = "COOLDOWN"
          /\ state_machine.state_history[i + 1].timestamp =
                state_machine.state_history[i].timestamp

\* the second alarm was raised as soon as the loop allows it after the first
C33_Witness ==
    /\ alarm_system.enabled
    /\ alarm_system.cooldown_period = MaxCooldown
    /\ Cardinality(AlarmEntries) = 2
    /\ alarm_system.trigger_count = 2
----------------------------------------------------------------------------
(* C34: a callback that reads the state machine *)

\* C34: transition_to returns true also when the callback registered for the
\* target state reads the same state machine: the call does not block on the
\* state machine's lock.
\* transition_to invokes the callback while it holds the lock that the
\* callback's get_current_state asks for, so the call never returns.
C34_CallbackReadsStateMachine ==
    \A th \in LockThreads :
        call[th].op = "transition_to" => ~WaitsForOwnLock(th)
----------------------------------------------------------------------------
(* C35: the history of the state machine *)

HistoryShape ==
    /\ Len(state_machine.state_history) = state_machine.transition_count + 1
    /\ state_machine.state_history[Len(state_machine.state_history)].state =
          state_machine.current_state
    /\ state_machine.previous_state = NoState <=>
          state_machine.transition_count = 0

\* C35: in every state the history has transition_count + 1 entries, the first
\* being the initial state, its last entry is the current state, and
\* previous_state is unset exactly when transition_count is 0; no step removes
\* or rewrites an entry of the history, and transition_count never decreases
C35_HistoryIsAppendOnly ==
    /\ [](HistoryShape /\ state_machine.state_history[1].state = "IDLE")
    /\ [][/\ Len(state_machine'.state_history) >=
                Len(state_machine.state_history)
          /\ SubSeq(state_machine'.state_history, 1,
                    Len(state_machine.state_history)) =
                state_machine.state_history
          /\ state_machine'.transition_count >=
                state_machine.transition_count]_vars

\* after several transitions a call was refused
C35_Witness ==
    /\ last_call.op = "transition_to"
    /\ ~ last_call.ret
    /\ state_machine.transition_count >= 3
    /\ Len(state_machine.state_history) = state_machine.transition_count + 1
----------------------------------------------------------------------------
(* C37: the counters of the ring buffer *)

\* C37: as long as clear() has not been called, after any sequence of calls
\* write_count = read_count + overflow_count + size, and no call makes
\* write_count, read_count or overflow_count smaller
C37_CountersBalance ==
    /\ [](~ ring_trace.cleared =>
             ring.write_count =
                 ring.read_count + ring.overflow_count + ring.size)
    /\ [][~ ring_trace'.cleared =>
             /\ ring'.write_count >= ring.write_count
             /\ ring'.read_count >= ring.read_count
             /\ ring'.overflow_count >= ring.overflow_count]_vars

C37_Witness ==
    /\ ~ ring_trace.cleared
    /\ ring.overflow_count >= 1
    /\ ring.read_count >= 1
    /\ ring.size >= 1
    /\ ring.size < ring.capacity
----------------------------------------------------------------------------
(* C36: one producer and several consumers of a ring buffer *)

Items(seq) == {seq[i] : i \in DOMAIN seq}

\* the frames written so far that no read returned and that are not in the
\* buffer any more
Dropped ==
    (1 .. Len(ring_trace.written))
        \ (Items(ring_trace.read) \cup Items(Live(ring)))

\* C36: for every interleaving of the producer's writes and the consumers'
\* reads, the frames returned by read are frames written, in the order in
\* which they were written and none of them twice; and between the calls every
\* frame written was returned by a read, or was dropped by an overflow, or is
\* still in the buffer
C36_ReadsFollowWrites ==
    /\ \A i \in DOMAIN ring_trace.written : ring_trace.written[i] = i
    /\ \A i \in DOMAIN ring_trace.read :
          /\ ring_trace.read[i] \in 1 .. Len(ring_trace.written)
          /\ \A j \in DOMAIN ring_trace.read :
                i < j => ring_trace.read[i] < ring_trace.read[j]
    /\ (last_call.op = "ring_read" /\ last_call.val # None) =>
          last_call.val \in Items(ring_trace.read)
    /\ locks["ring"] = Free =>
          /\ Items(ring_trace.read) \cap Items(Live(ring)) = {}
          /\ Cardinality(Items(Live(ring))) = ring.size
          /\ Cardinality(Dropped) = ring.overflow_count

\* two reads returned a frame each and an overflow dropped the third one
C36_Witness ==
    /\ locks["ring"] = Free
    /\ \A th \in RingThreads : call[th] = NoCall
    /\ Len(ring_trace.read) = 2
    /\ Cardinality(Dropped) = 1
    /\ ring.overflow_count = 1
----------------------------------------------------------------------------
(* C38: a change that lasts passes the stabilizer *)

\* the history_length detections of the window, the current one included, all
\* have the same count
SteadyWindow(history) ==
    /\ Len(history) = history_length
    /\ \A i \in DOMAIN history : Len(history[i]) = Len(history[1])

\* C38: whenever the whole window, the current detection included, holds
\* history_length detections of one count, the current detection is accepted
\* and returned; so a count that lasts is the stable one after at most
\* history_length calls, whatever the stable detection was before
C38_SteadyCountIsAccepted ==
    /\ [][(SmoothCall /\ SteadyWindow(recognizer'.face_history)) =>
             Accepted]_vars
    /\ [](SteadyWindow(recognizer.face_history) =>
             Len(recognizer.last_stable_names) =
                 Len(recognizer.face_history[history_length]))

\* five faces were seen for the whole window and are the stable detection
C38_Witness ==
    /\ last_call.op = "_apply_temporal_smoothing"
    /\ CountsOf(recognizer.face_history) = <<5, 5, 5, 5, 5>>
    /\ Len(smooth_trace.returned) = 5
    /\ Len(recognizer.last_stable_names) = 5
----------------------------------------------------------------------------
(* Calls on a MemoryHierarchy and on its L1 frame buffer *)

MaxHierarchyAccesses == 3

InitHierarchy ==
    /\ InitController(TRUE, MaxCooldown)
    /\ InitMemory(1, 1)
    /\ InitLocks
    /\ InitVision(1, 0)
    /\ \E l1_size \in 1 .. MaxCapacity : InitArchitecture(1, l1_size)

hierarchy_frame ==
    << now, fsm_vars, alarm_vars, loop_vars, mem_vars, lock_vars, vision_vars,
       pipeline, pipeline_pc >>

AccessFrame(operation) ==
    /\ hierarchy.total_accesses < MaxHierarchyAccesses
    /\ hierarchy.lock = Free
    /\ LET r == access_frame(hierarchy, operation)
       IN  /\ hierarchy' = r.h
           /\ last_call' =
                  IF r.exc # NoError
                  THEN Raise("access_frame", << operation >>, r.exc)
                  ELSE [Call("access_frame", << operation >>, r.ret)
                            EXCEPT !.val = r.val]
    /\ UNCHANGED hierarchy_frame

\* l1_cache.write(frame) by a client that holds a frame
L1Write(frame) ==
    /\ hierarchy.l1_cache.write_count < MaxWrites
    /\ hierarchy' = [hierarchy EXCEPT
                        !.l1_cache = buffer_write_outcome(@, frame).rb]
    /\ last_call' = Call("write", << frame >>, TRUE)
    /\ UNCHANGED hierarchy_frame

NextHierarchy ==
    \/ \E operation \in {"read", "write", "flush"} : AccessFrame(operation)
    \/ \E frame \in Frames : L1Write(frame)

SpecHierarchy == InitHierarchy /\ [][NextHierarchy]_vars

\* C40: access_frame("write") completes without an error: it returns True and
\* the L1 access time, and the hierarchy's lock is free again
C40_WriteAccessCompletes ==
    (last_call.op = "access_frame" /\ last_call.arg = << "write" >>) =>
        /\ last_call.exc = NoError
        /\ last_call.ret
        /\ last_call.val = l1_access_time
        /\ hierarchy.lock = Free
----------------------------------------------------------------------------
(* A Pipeline that a client starts, feeds and stops while the stage threads
   run.  A step is one statement of execute_stage or of stop(); a put on a
   full queue is a step that cannot be taken until the queue has room. *)

MaxStages == 2

InitPipeline ==
    /\ InitController(TRUE, MaxCooldown)
    /\ InitMemory(1, 1)
    /\ InitLocks
    /\ InitVision(1, 0)
    /\ \E num_stages \in 1 .. MaxStages : InitArchitecture(num_stages, 1)

pipeline_frame ==
    << now, fsm_vars, alarm_vars, loop_vars, mem_vars, lock_vars, vision_vars,
       hierarchy >>

Stages == DOMAIN pipeline_pc.stage

\* start(): running is set and one thread per stage begins execute_stage
PipelineStart ==
    /\ pipeline_pc.stop = "idle"
    /\ \A i \in Stages : pipeline_pc.stage[i] = "unstarted"
    /\ pipeline' = [pipeline EXCEPT !.running = TRUE]
    /\ pipeline_pc' = [pipeline_pc EXCEPT !.stage = [i \in Stages |-> "while"]]
    /\ UNCHANGED << last_call, pipeline_frame >>

\* feed(data), by the client before it stops the pipeline
Feed ==
    /\ pipeline_pc.stop = "idle"
    /\ ~full(pipeline.stage_queues[0])
    /\ pipeline' = put(pipeline, 0, Item)
    /\ UNCHANGED << pipeline_pc, last_call, pipeline_frame >>

\* get_output() that finds a result in the last queue
GetOutput ==
    /\ pipeline.stage_queues[pipeline.num_stages] # << >>
    /\ pipeline' = get(pipeline, pipeline.num_stages)
    /\ UNCHANGED << pipeline_pc, last_call, pipeline_frame >>

\* line 90: while self.running
StageWhile(i) ==
    /\ pipeline_pc.stage[i] = "while"
    /\ pipeline_pc' = [pipeline_pc EXCEPT
                          !.stage[i] = IF pipeline.running
                                       THEN "get" ELSE "ended"]
    /\ UNCHANGED << pipeline, last_call, pipeline_frame >>

\* lines 93-116: input_queue.get(timeout=0.1); on queue.Empty the loop goes
\* on; the pill is passed on; the stage function yields a result or None
StageGet(i) ==
    /\ pipeline_pc.stage[i] = "get"
    /\ IF pipeline.stage_queues[i] = << >>
       THEN /\ pipeline_pc' = [pipeline_pc EXCEPT !.stage[i] = "while"]
            /\ UNCHANGED pipeline
       ELSE /\ pipeline' = get(pipeline, i)
            /\ IF Head(pipeline.stage_queues[i]) = Pill
               THEN pipeline_pc' = [pipeline_pc EXCEPT
                                       !.stage[i] = "put_pill"]
               ELSE \E result \in {Item, Pill} :
                        pipeline_pc' = [pipeline_pc EXCEPT
                            !.stage[i] = IF result = Pill
                                         THEN "while" ELSE "put"]
    /\ UNCHANGED << last_call, pipeline_frame >>

\* line 110: output_queue.put(result)
StagePut(i) ==
    /\ pipeline_pc.stage[i] = "put"
    /\ ~full(pipeline.stage_queues[i + 1])
    /\ pipeline' = put(pipeline, i + 1, Item)
    /\ pipeline_pc' = [pipeline_pc EXCEPT !.stage[i] = "while"]
    /\ UNCHANGED << last_call, pipeline_frame >>

\* lines 96-97: output_queue.put(None); break
StagePutPill(i) ==
    /\ pipeline_pc.stage[i] = "put_pill"
    /\ ~full(pipeline.stage_queues[i + 1])
    /\ pipeline' = put(pipeline, i + 1, Pill)
    /\ pipeline_pc' = [pipeline_pc EXCEPT !.stage[i] = "ended"]
    /\ UNCHANGED << last_call, pipeline_frame >>

\* stop(), line 141: self.running = False
StopClear ==
    /\ pipeline_pc.stop = "idle"
    /\ \A i \in Stages : pipeline_pc.stage[i] # "unstarted"
    /\ pipeline' = [pipeline EXCEPT !.running = FALSE]
    /\ pipeline_pc' = [pipeline_pc EXCEPT !.stop = "put_pill"]
    /\ UNCHANGED << last_call, pipeline_frame >>

\* stop(), line 143: self.stage_queues[0].put(None)
StopPutPill ==
    /\ pipeline_pc.stop = "put_pill"
    /\ ~full(pipeline.stage_queues[0])
    /\ pipeline' = put(pipeline, 0, Pill)
    /\ pipeline_pc' = [pipeline_pc EXCEPT !.stop = "join"]
    /\ UNCHANGED << last_call, pipeline_frame >>

\* stop(), lines 146-147: each join returns when its thread has ended or
\* after 2 seconds, and stop() returns
StopJoin ==
    /\ pipeline_pc.stop = "join"
    /\ pipeline_pc' = [pipeline_pc EXCEPT !.stop = "returned"]
    /\ last_call' = CallValue("stop", << >>, None)
    /\ UNCHANGED << pipeline, pipeline_frame >>

NextPipeline ==
    \/ PipelineStart
    \/ Feed
    \/ GetOutput
    \/ \E i \in Stages : StageWhile(i)
    \/ \E i \in Stages : StageGet(i)
    \/ \E i \in Stages : StagePut(i)
    \/ \E i \in Stages : StagePutPill(i)
    \/ StopClear
    \/ StopPutPill
    \/ StopJoin

SpecPipeline == InitPipeline /\ [][NextPipeline]_vars

\* stop() waits to put the pill into a full first queue whose only consumer,
\* the thread of stage 0, has ended: no step of any thread makes room
StopWaitsForEver ==
    /\ pipeline_pc.stop = "put_pill"
    /\ full(pipeline.stage_queues[0])
    /\ pipeline_pc.stage[0] = "ended"

\* C39: stop() always returns: whatever was fed and however far the stage
\* threads are, it never waits for ever to enqueue the poison pill
C39_StopReturns == ~StopWaitsForEver

====
